---- MODULE Spec2Model ----
(***************************************************************************)
(* A model of the code generation backend in src/src/codegen.cpp: the      *)
(* lowering of analyzed IR instructions to backend (LLVM) instructions,    *)
(* the runtime safety checks, the constant emitter and the function        *)
(* prototype ABI decisions.                                                *)
(*                                                                         *)
(* Backend values (LLVMValueRef) are records [k, t, n, m, e]; a backend    *)
(* instruction is a record [op, x, args, bbs, id]; the builder and the     *)
(* module are the record W that every lowering operator takes and returns  *)
(* (its field ret is the operator's return value).                         *)
(***************************************************************************)
EXTENDS Integers, Sequences, FiniteSets, TLC

VARIABLES
    g,          \* CodeGen flags: is_release_build, is_test_build, ...
    scope,      \* scope chain of the instruction being lowered, innermost first
    W,          \* the backend module under construction and the builder
    ir,         \* the IR instruction being / last lowered (a record)
    pc,         \* position of the driver
    want,       \* ir_want_debug_safety as evaluated for the last lowered instruction
    nreq,       \* the number of requests served so far
    cur_fn,     \* the function being generated: its analyzed executable
    block_i,    \* ir_render: the index of the block being rendered
    instr_i,    \* ir_render: the index of the next instruction of that block
    fn_protos,  \* g->fn_protos
    fn_proto_i, \* do_code_gen: the index of the next prototype
    fn_vals,    \* the backend function of each prototype (llvm_value), once created
    test_fn_vals, \* do_code_gen: the test function values collected so far
    fn_def_i,   \* do_code_gen: the index of the next function definition
    fn_defs_gen \* the definitions generated so far: the function and its g->cur_ret_ptr

vars == <<g, scope, W, ir, pc, want, nreq, cur_fn, block_i, instr_i,
          fn_protos, fn_proto_i, fn_vals, test_fn_vals, fn_def_i, fn_defs_gen>>

\* the variables of the function walker and of the prototype loop
walker_vars == <<cur_fn, block_i, instr_i>>
proto_vars == <<fn_protos, fn_proto_i, fn_vals, test_fn_vals, fn_def_i, fn_defs_gen>>

(***************************************************************************)
(* Bounds of the model.                                                    *)
(***************************************************************************)
\* scopes around the FnDef scope of an instruction: the nested Block/Loop scopes
\* inside it and the Decls scopes (file, containers) enclosing it
MaxScopes == 2
\* global variables generated and static operands read in one run of the constant emitter
MaxRequests == 2
\* runtime operand instructions of the instruction being lowered
MaxRuntimeOps == 3
\* instructions of a function of the walker
MaxFnInstrs == 10
\* prototypes in g->fn_protos
MaxProtos == 2
\* the most functions of a code generation
MaxFns == 3

(***************************************************************************)
(* Naming a value.  On([x \in {e} |-> body]) is body with x naming the     *)
(* value of e: e is computed once, however often body uses x.              *)
(***************************************************************************)
The(S) == CHOOSE v \in S : TRUE
On(f) == CHOOSE v \in {h[CHOOSE d \in DOMAIN h : TRUE] : h \in {f}} : TRUE

(***************************************************************************)
(* Backend values.                                                         *)
(***************************************************************************)
V(k, n, m, e) == [k |-> k, t |-> "", n |-> n, m |-> m, e |-> e]
\* a value that carries a type: undef, null pointer, zeroinitializer
VT(k, t) == [k |-> k, t |-> t, n |-> 0, m |-> 0, e |-> <<>>]

\* nullptr: no backend value
NullRef == V("nullptr", 0, 0, <<>>)
\* the result of the backend instruction with id n
InstVal(n) == V("inst", n, 0, <<>>)
\* LLVMConstNull(type): the zero of a type of m bits
ConstNull(bits) == V("int", 0, bits, <<>>)
\* LLVMConstInt(type, n)
ConstInt(bits, n) == V("int", n, bits, <<>>)
\* LLVMConstAllOnes(i1)
ConstAllOnes1 == V("int", 1, 1, <<>>)
\* a handle named by a string: intrinsic functions, operands
Named(k, n) == V(k, n, 0, <<>>)

(***************************************************************************)
(* Types (TypeTableEntry).  A type is named by a string; TypeTable gives   *)
(* its entry.  SIZE_MAX (no generated index) is -1.                        *)
(***************************************************************************)
SizeMax == -1

TE(id, bits, sgn, child, len, zero) ==
    [id |-> id, bit_count |-> bits, is_signed |-> sgn, child_type |-> child,
     len |-> len, zero_bits |-> zero, is_slice |-> FALSE, gen_field_count |-> 0,
     tag_type |-> "", fields |-> <<>>, is_const |-> FALSE]

\* a struct field: TypeStructField {type_entry, gen_index}
SF(t, gi) == [type_entry |-> t, gen_index |-> gi]

IntTypeNames == {"i8", "u8", "i16", "u16", "i32", "u32", "i64", "u64"}

TypeNames ==
    IntTypeNames \cup
    {"void", "unreachable", "bool", "f32", "f64", "error", "*error", "MyInt",
     "*u8", "*u32", "*void", "**u8", "[4]i32", "*[4]i32", "[0]u8", "*[0]u8",
     "[]u8", "*[]u8", "[]u32",
     "?u8", "*?u8", "?*u8", "*?*u8", "%u8", "%void",
     "Enum0", "EnumP", "*EnumP", "S", "*S", "[2]u8", "*[2]u8", "SC", "*SC", "fn"}

TypeTable == [t \in TypeNames |->
    CASE t = "void"        -> TE("Void", 0, FALSE, "", 0, TRUE)
      [] t = "unreachable" -> TE("Unreachable", 0, FALSE, "", 0, TRUE)
      [] t = "bool"        -> TE("Bool", 1, FALSE, "", 0, FALSE)
      [] t = "i8"          -> TE("Int", 8, TRUE, "", 0, FALSE)
      [] t = "u8"          -> TE("Int", 8, FALSE, "", 0, FALSE)
      [] t = "i16"         -> TE("Int", 16, TRUE, "", 0, FALSE)
      [] t = "u16"         -> TE("Int", 16, FALSE, "", 0, FALSE)
      [] t = "i32"         -> TE("Int", 32, TRUE, "", 0, FALSE)
      [] t = "u32"         -> TE("Int", 32, FALSE, "", 0, FALSE)
      [] t = "i64"         -> TE("Int", 64, TRUE, "", 0, FALSE)
      [] t = "u64"         -> TE("Int", 64, FALSE, "", 0, FALSE)
      [] t = "f32"         -> TE("Float", 32, FALSE, "", 0, FALSE)
      [] t = "f64"         -> TE("Float", 64, FALSE, "", 0, FALSE)
      [] t = "error"       -> TE("PureError", 16, FALSE, "", 0, FALSE)
      [] t = "*error"      -> TE("Pointer", 64, FALSE, "error", 0, FALSE)
      [] t = "MyInt"       -> TE("TypeDecl", 0, FALSE, "i16", 0, FALSE)
      [] t = "*u8"         -> TE("Pointer", 64, FALSE, "u8", 0, FALSE)
      [] t = "*u32"        -> TE("Pointer", 64, FALSE, "u32", 0, FALSE)
      [] t = "*void"       -> TE("Pointer", 0, FALSE, "void", 0, TRUE)
      [] t = "**u8"        -> TE("Pointer", 64, FALSE, "*u8", 0, FALSE)
      [] t = "[4]i32"      -> TE("Array", 0, FALSE, "i32", 4, FALSE)
      [] t = "*[4]i32"     -> TE("Pointer", 64, FALSE, "[4]i32", 0, FALSE)
      [] t = "[0]u8"       -> TE("Array", 0, FALSE, "u8", 0, TRUE)
      [] t = "*[0]u8"      -> TE("Pointer", 0, FALSE, "[0]u8", 0, TRUE)
      [] t = "[]u8"        -> [TE("Struct", 0, FALSE, "", 0, FALSE) EXCEPT
                                 !.is_slice = TRUE, !.gen_field_count = 2,
                                 !.fields = <<SF("*u8", 0), SF("u64", 1)>>]
      [] t = "*[]u8"       -> TE("Pointer", 64, FALSE, "[]u8", 0, FALSE)
      [] t = "[]u32"       -> [TE("Struct", 0, FALSE, "", 0, FALSE) EXCEPT
                                 !.is_slice = TRUE, !.gen_field_count = 2,
                                 !.fields = <<SF("*u32", 0), SF("u64", 1)>>]
      [] t = "?u8"         -> TE("Maybe", 0, FALSE, "u8", 0, FALSE)
      [] t = "*?u8"        -> TE("Pointer", 64, FALSE, "?u8", 0, FALSE)
      [] t = "?*u8"        -> TE("Maybe", 64, FALSE, "*u8", 0, FALSE)
      [] t = "*?*u8"       -> TE("Pointer", 64, FALSE, "?*u8", 0, FALSE)
      [] t = "%u8"         -> TE("ErrorUnion", 0, FALSE, "u8", 0, FALSE)
      [] t = "%void"       -> TE("ErrorUnion", 16, FALSE, "void", 0, FALSE)
      [] t = "Enum0"       -> [TE("Enum", 8, FALSE, "", 0, FALSE) EXCEPT
                                 !.tag_type = "u8",
                                 !.fields = <<SF("void", SizeMax), SF("void", SizeMax)>>]
      [] t = "EnumP"       -> [TE("Enum", 0, FALSE, "", 0, FALSE) EXCEPT
                                 !.tag_type = "u8", !.gen_field_count = 2,
                                 !.fields = <<SF("void", SizeMax), SF("u8", 0), SF("i16", 1)>>]
      [] t = "*EnumP"      -> TE("Pointer", 64, FALSE, "EnumP", 0, FALSE)
      [] t = "S"           -> [TE("Struct", 0, FALSE, "", 0, FALSE) EXCEPT
                                 !.gen_field_count = 2,
                                 !.fields = <<SF("u8", 0), SF("void", SizeMax), SF("bool", 1)>>]
      [] t = "*S"          -> TE("Pointer", 64, FALSE, "S", 0, FALSE)
      [] t = "[2]u8"       -> TE("Array", 0, FALSE, "u8", 2, FALSE)
      [] t = "*[2]u8"      -> TE("Pointer", 64, FALSE, "[2]u8", 0, FALSE)
      [] t = "SC"          -> [TE("Struct", 0, FALSE, "", 0, FALSE) EXCEPT
                                 !.gen_field_count = 1,
                                 !.fields = <<SF("*SC", 0)>>]
      [] t = "*SC"         -> TE("Pointer", 64, FALSE, "SC", 0, FALSE)
      [] t = "fn"          -> TE("Fn", 64, FALSE, "", 0, FALSE)]

Ty(t) == TypeTable[t]

\* g->builtin_types.entry_usize on the modelled 64-bit target
entry_usize == "u64"
\* g->err_tag_type
err_tag_type == "u16"

get_underlying_type(t) ==
    IF Ty(t).id = "TypeDecl" THEN Ty(t).child_type ELSE t

type_has_bits(t) == ~Ty(get_underlying_type(t)).zero_bits

handle_is_ptr(t) ==
    On([e \in {Ty(get_underlying_type(t))} |->
    CASE e.id \in {"Array", "Struct", "Union"} -> TRUE
      [] e.id = "ErrorUnion" -> type_has_bits(e.child_type)
      [] e.id = "Enum"       -> e.gen_field_count # 0
      [] e.id = "Maybe"      -> Ty(e.child_type).id \notin {"Pointer", "Fn"}
      [] OTHER               -> FALSE])

\* the width of the backend type of a scalar type (type_entry->type_ref)
TypeBits(t) == Ty(get_underlying_type(t)).bit_count

(***************************************************************************)
(* Constants (ConstExprValue).  The constants of the compilation are the   *)
(* objects of ConstTable; a ConstExprValue* is an index into it and        *)
(* NullConst the null pointer.  A bignum is sign and magnitude.            *)
(***************************************************************************)
NullConst == 0

BigNum(neg, mag) == [is_negative |-> neg, x_uint |-> mag]

BaseCV(t) ==
    [special |-> "Static", type |-> t, x_bignum |-> BigNum(FALSE, 0), x_bool |-> FALSE,
     x_maybe |-> NullConst, fields |-> <<>>, elements |-> <<>>, tag |-> 0,
     payload |-> NullConst, base_ptr |-> NullConst, index |-> SizeMax,
     err |-> 0, x_pure_err |-> 0]

CInt(t, neg, mag)  == [BaseCV(t) EXCEPT !.x_bignum = BigNum(neg, mag)]
CPtr(t, base, idx) == [BaseCV(t) EXCEPT !.base_ptr = base, !.index = idx]

ConstTable ==
    << CInt("u8", FALSE, 200),                               \* 1
       CInt("i8", TRUE, 3),                                  \* 2
       [BaseCV("bool") EXCEPT !.x_bool = TRUE],              \* 3
       BaseCV("void"),                                       \* 4
       [BaseCV("?u8") EXCEPT !.x_maybe = 1],                 \* 5
       BaseCV("?u8"),                                        \* 6
       CPtr("*u8", 1, SizeMax),                              \* 7
       CPtr("*u8", 1, SizeMax),                              \* 8
       [BaseCV("?*u8") EXCEPT !.x_maybe = 7],                \* 9
       BaseCV("?*u8"),                                       \* 10
       [BaseCV("%u8") EXCEPT !.payload = 1],                 \* 11
       [BaseCV("%u8") EXCEPT !.err = 5],                     \* 12
       [BaseCV("%void") EXCEPT !.err = 3],                   \* 13
       [BaseCV("%void") EXCEPT !.payload = 4],               \* 14
       [BaseCV("Enum0") EXCEPT !.tag = 1],                   \* 15
       [BaseCV("EnumP") EXCEPT !.tag = 1, !.payload = 1],    \* 16
       [BaseCV("EnumP") EXCEPT !.tag = 0, !.payload = 4],    \* 17
       [BaseCV("S") EXCEPT !.fields = <<1, 4, 3>>],          \* 18
       [BaseCV("[2]u8") EXCEPT !.elements = <<1, 20>>],      \* 19
       CInt("u8", FALSE, 7),                                 \* 20
       CPtr("*u8", 19, 1),                                   \* 21
       CPtr("*u8", 19, 0),                                   \* 22
       [BaseCV("SC") EXCEPT !.fields = <<24>>],              \* 23
       CPtr("*SC", 23, SizeMax),                             \* 24
       [BaseCV("u8") EXCEPT !.special = "Undef"],            \* 25
       [BaseCV("S") EXCEPT !.special = "Zeroes"],            \* 26
       [BaseCV("error") EXCEPT !.x_pure_err = 7],            \* 27
       CInt("MyInt", TRUE, 300),                             \* 28
       CInt("u16", FALSE, 65535),                            \* 29
       [BaseCV("bool") EXCEPT !.x_bool = FALSE],             \* 30
       CInt("i8", TRUE, 128),                                \* 31
       [BaseCV("EnumP") EXCEPT !.tag = 2, !.payload = 33],   \* 32
       CInt("i16", TRUE, 1),                                 \* 33
       [BaseCV("*u8") EXCEPT !.special = "Undef"] >>         \* 34

NumConsts == Len(ConstTable)
Const(c) == ConstTable[c]

\* the ids of IR instructions: the instruction whose static value is the constant c
\* has id c, the runtime instructions have the ids above NumConsts
IrIds == 1..(NumConsts + MaxRuntimeOps + MaxFnInstrs)

\* the caches of a ConstExprValue: llvm_value and llvm_global
NoCache == [llvm_value |-> V("nullptr", 0, 0, <<>>), llvm_global |-> V("nullptr", 0, 0, <<>>)]

(***************************************************************************)
(* The backend module and builder.  W.blocks is the list of backend basic  *)
(* blocks of the function being lowered (a block handle is its index),     *)
(* W.cur the builder's insert block, W.ret the value the last lowering     *)
(* operator returned.  Once the process has aborted (a failed assert,      *)
(* zig_unreachable, zig_panic) nothing more is emitted.  W.backend_asserts *)
(* says whether the backend library was built with its assertions: then it *)
(* aborts when it is handed a null handle as an operand, otherwise it      *)
(* builds the instruction with the null operand.                           *)
(***************************************************************************)
NoBlock == 0

EmptyW ==
    [blocks |-> <<>>, cur |-> NoBlock, next_id |-> 1, ret |-> NullRef,
     aborted |-> FALSE, why |-> "", backend_asserts |-> FALSE,
     int_overflow_fns |-> {}, int_builtin_fns |-> {}, module_fns |-> <<>>,
     dbg_declares |-> 0,
     consts |-> [c \in 1..NumConsts |-> NoCache], globals |-> <<>>, stack |-> <<>>,
     irb |-> <<>>,
     llvm_value |-> [i \in IrIds |-> NullRef]]

Abort(w, why) == IF w.aborted THEN w ELSE [w EXCEPT !.aborted = TRUE, !.why = why]

\* an assert that is compiled out
assert_compiled_out(w, cond, why) == w

\* assert(cond)
c_assert(w, cond, why) == IF cond THEN w ELSE Abort(w, why)

Ret(w, v) == IF w.aborted THEN w ELSE [w EXCEPT !.ret = v]

\* LLVMAppendBasicBlock(g->cur_fn_val, name): the new block's handle is NewBlock(w)
NewBlock(w) == Len(w.blocks) + 1
LLVMAppendBasicBlock(w, name) ==
    IF w.aborted THEN w
    ELSE [w EXCEPT !.blocks = Append(@, [name |-> name, insns |-> <<>>])]

LLVMPositionBuilderAtEnd(w, bb) ==
    IF w.aborted THEN w ELSE [w EXCEPT !.cur = bb]

\* LLVMBuild*: append one backend instruction at the insert point; its result is w.ret
Emit(w, op, x, args, bbs) ==
    IF w.aborted THEN w
    ELSE [w EXCEPT
            !.blocks[w.cur].insns =
                Append(@, [op |-> op, x |-> x, args |-> args, bbs |-> bbs, id |-> w.next_id]),
            !.next_id = @ + 1,
            !.ret = InstVal(w.next_id)]

\* LLVMBuildLoad: loading through a null handle crashes in the backend
LLVMBuildLoad(w, ptr) ==
    IF ptr = NullRef THEN Abort(w, "LLVMBuildLoad(nullptr)")
    ELSE Emit(w, "load", "", <<ptr>>, <<>>)

\* the handle of the intrinsic llvm.debugtrap (g->trap_fn_val)
trap_fn_val == "llvm.debugtrap"

\* a crash path that ends the block without calling the trap
crash_without_trap(w) == Emit(w, "unreachable", "", <<>>, <<>>)

gen_debug_safety_crash(w) ==
    On([w1 \in {Emit(w, "call", trap_fn_val, <<>>, <<>>)} |->
        Emit(w1, "unreachable", "", <<>>, <<>>)])

(***************************************************************************)
(* Scopes.  The scope chain of an instruction is the sequence of its       *)
(* scopes from instruction->scope (index 1) up the parent pointers to the  *)
(* root.  A scope is [id, safety_set_node, safety_off].                    *)
(***************************************************************************)
Sc(id, set, off) == [id |-> id, safety_set_node |-> set, safety_off |-> off]

RECURSIVE WalkScopes(_, _)
\* the while (scope) loop of ir_want_debug_safety, from the i-th scope of the chain
WalkScopes(chain, i) ==
    IF i > Len(chain) THEN TRUE
    ELSE IF chain[i].id = "Block" /\ chain[i].safety_set_node THEN ~chain[i].safety_off
    ELSE IF chain[i].id = "Decls" /\ chain[i].safety_set_node THEN ~chain[i].safety_off
    ELSE WalkScopes(chain, i + 1)

\* a predicate that ignores the scopes
default_debug_safety(gg, chain) == ~gg.is_release_build

ir_want_debug_safety(gg, chain) ==
    IF gg.is_release_build THEN FALSE ELSE WalkScopes(chain, 1)

(***************************************************************************)
(* Safety and intrinsic helpers.                                           *)
(***************************************************************************)
\* bits_index: the table slot of a width, SizeMax where the code is zig_unreachable
bits_index(size_in_bits) ==
    CASE size_in_bits = 8  -> 0
      [] size_in_bits = 16 -> 1
      [] size_in_bits = 32 -> 2
      [] size_in_bits = 64 -> 3
      [] OTHER             -> SizeMax

\* LLVMAddFunction(g->module, name, ...): the handle is the position in the module
LLVMAddFunction(w, name) ==
    IF w.aborted THEN w
    ELSE [w EXCEPT !.module_fns = Append(@, name),
                   !.ret = Named("fn", Len(w.module_fns) + 1)]

\* the intrinsic of the signed operation whatever the type
get_signed_overflow_fn(w, type_entry, signed_name, unsigned_name) ==
    LLVMAddFunction(w, "llvm." \o signed_name \o ".with.overflow.i"
                           \o ToString(Ty(type_entry).bit_count))

get_arithmetic_overflow_fn(w, type_entry, signed_name, unsigned_name) ==
    On([signed_str \in {IF Ty(type_entry).is_signed THEN signed_name ELSE unsigned_name} |->
    On([llvm_name  \in {"llvm." \o signed_str \o ".with.overflow.i"
                            \o ToString(Ty(type_entry).bit_count)} |->
        LLVMAddFunction(c_assert(w, Ty(type_entry).id = "Int", "overflow fn of a non-int"),
                        llvm_name)])])

AddSubMulAdd == 0
AddSubMulSub == 1
AddSubMulMul == 2

get_int_overflow_fn(w, type_entry, add_sub_mul) ==
    On([index0 \in {IF Ty(type_entry).is_signed THEN 0 ELSE 1} |->
    On([index1 \in {add_sub_mul} |->
    On([index2 \in {bits_index(Ty(type_entry).bit_count)} |->
    On([key    \in {<<index0, index1, index2>>} |->
    On([w0     \in {c_assert(c_assert(w, Ty(type_entry).id = "Int", "overflow fn of a non-int"),
                             index2 # SizeMax, "bits_index: zig_unreachable")} |->
    On([hit    \in {{e \in w0.int_overflow_fns : e.key = key}} |->
        IF w0.aborted THEN w0
        ELSE IF hit # {} THEN Ret(w0, (CHOOSE e \in hit : TRUE).fn)
        ELSE On([w1 \in {CASE add_sub_mul = AddSubMulAdd ->
                                 get_arithmetic_overflow_fn(w0, type_entry, "sadd", "uadd")
                           [] add_sub_mul = AddSubMulSub ->
                                 get_arithmetic_overflow_fn(w0, type_entry, "ssub", "usub")
                           [] add_sub_mul = AddSubMulMul ->
                                 get_arithmetic_overflow_fn(w0, type_entry, "smul", "umul")} |->
                 [w1 EXCEPT !.int_overflow_fns = @ \cup {[key |-> key, fn |-> w1.ret]}]])])])])])])])

get_handle_value(w, ptr, type) ==
    IF handle_is_ptr(type) THEN Ret(w, ptr)
    ELSE LLVMBuildLoad(w, ptr)

\* a bounds check that compares with one bound only, the upper one if there is one
add_one_bound_check(w, target_val, lower_pred, lower_value, upper_pred, upper_value) ==
    IF lower_value = NullRef /\ upper_value = NullRef THEN w
    ELSE
    On([fail_block \in {NewBlock(w)} |->
    On([w1 \in {LLVMAppendBasicBlock(w, "BoundsCheckFail")} |->
    On([ok_block \in {NewBlock(w1)} |->
    On([w2 \in {LLVMAppendBasicBlock(w1, "BoundsCheckOk")} |->
    On([w3 \in {IF upper_value # NullRef
                THEN Emit(w2, "icmp", upper_pred, <<target_val, upper_value>>, <<>>)
                ELSE Emit(w2, "icmp", lower_pred, <<target_val, lower_value>>, <<>>)} |->
    On([w4 \in {Emit(w3, "condbr", "", <<w3.ret>>, <<ok_block, fail_block>>)} |->
    On([w5 \in {gen_debug_safety_crash(LLVMPositionBuilderAtEnd(w4, fail_block))} |->
        LLVMPositionBuilderAtEnd(w5, ok_block)])])])])])])])

add_bounds_check(w, target_val, lower_pred, lower_value, upper_pred, upper_value) ==
    IF lower_value = NullRef /\ upper_value = NullRef THEN w
    ELSE
    On([swap \in {upper_value # NullRef /\ lower_value = NullRef} |->
    On([lv   \in {IF swap THEN upper_value ELSE lower_value} |->
    On([lp   \in {IF swap THEN upper_pred ELSE lower_pred} |->
    On([uv   \in {IF swap THEN NullRef ELSE upper_value} |->
    On([bounds_check_fail_block \in {NewBlock(w)} |->
    On([w1   \in {LLVMAppendBasicBlock(w, "BoundsCheckFail")} |->
    On([ok_block \in {NewBlock(w1)} |->
    On([w2   \in {LLVMAppendBasicBlock(w1, "BoundsCheckOk")} |->
    On([lower_ok_block \in {IF uv # NullRef THEN NewBlock(w2) ELSE ok_block} |->
    On([w3   \in {IF uv # NullRef THEN LLVMAppendBasicBlock(w2, "FirstBoundsCheckOk") ELSE w2} |->
    On([w4   \in {Emit(w3, "icmp", lp, <<target_val, lv>>, <<>>)} |->
    On([w5   \in {Emit(w4, "condbr", "", <<w4.ret>>, <<lower_ok_block, bounds_check_fail_block>>)} |->
    On([w6   \in {gen_debug_safety_crash(LLVMPositionBuilderAtEnd(w5, bounds_check_fail_block))} |->
    On([w7   \in {IF uv # NullRef
                  THEN On([a \in {LLVMPositionBuilderAtEnd(w6, lower_ok_block)} |->
                       On([b \in {Emit(a, "icmp", upper_pred, <<target_val, uv>>, <<>>)} |->
                           Emit(b, "condbr", "", <<b.ret>>, <<ok_block, bounds_check_fail_block>>)])])
                  ELSE w6} |->
        LLVMPositionBuilderAtEnd(w7, ok_block)])])])])])])])])])])])])])])

\* the blocks a safety check appends: ok_name first when ok_first, then the branch
\* on cond (to the ok block when cond holds iff ~fail_on_true), the trap, the ok block
SafetyBranch(w, cond, first_name, second_name, ok_first, fail_on_true) ==
    On([b1 \in {NewBlock(w)} |->
    On([w1 \in {LLVMAppendBasicBlock(w, first_name)} |->
    On([b2 \in {NewBlock(w1)} |->
    On([w2 \in {LLVMAppendBasicBlock(w1, second_name)} |->
    On([ok_block   \in {IF ok_first THEN b1 ELSE b2} |->
    On([fail_block \in {IF ok_first THEN b2 ELSE b1} |->
    On([w3 \in {Emit(w2, "condbr", "", <<cond>>,
                     IF fail_on_true THEN <<fail_block, ok_block>> ELSE <<ok_block, fail_block>>)} |->
    On([w4 \in {gen_debug_safety_crash(LLVMPositionBuilderAtEnd(w3, fail_block))} |->
        LLVMPositionBuilderAtEnd(w4, ok_block)])])])])])])])])

gen_widen_or_shorten(w, want_debug_safety, actual_type_non_canon, wanted_type_non_canon, expr_val) ==
    On([actual_type \in {get_underlying_type(actual_type_non_canon)} |->
    On([wanted_type \in {get_underlying_type(wanted_type_non_canon)} |->
    On([a \in {Ty(actual_type)} |->
    On([t \in {Ty(wanted_type)} |->
    On([w0 \in {c_assert(c_assert(w, a.id = t.id, "widen_or_shorten: type ids differ"),
                         a.id \in {"Float", "Int"}, "widen_or_shorten: zig_unreachable")} |->
    On([actual_bits \in {a.bit_count} |->
    On([wanted_bits \in {t.bit_count} |->
    On([w1 \in {IF actual_bits >= wanted_bits /\ a.id = "Int" /\ ~t.is_signed /\ a.is_signed
                   /\ want_debug_safety
                THEN On([c \in {Emit(w0, "icmp", "sge", <<expr_val, ConstNull(actual_bits)>>, <<>>)} |->
                         SafetyBranch(c, c.ret, "SignCastOk", "SignCastFail", TRUE, FALSE)])
                ELSE w0} |->
        IF actual_bits = wanted_bits THEN Ret(w1, expr_val)
        ELSE IF actual_bits < wanted_bits THEN
            IF a.id = "Float" THEN Emit(w1, "fpext", wanted_type, <<expr_val>>, <<>>)
            ELSE IF a.is_signed THEN Emit(w1, "sext", wanted_type, <<expr_val>>, <<>>)
            ELSE Emit(w1, "zext", wanted_type, <<expr_val>>, <<>>)
        ELSE
            IF a.id = "Float" THEN Emit(w1, "fptrunc", wanted_type, <<expr_val>>, <<>>)
            ELSE On([w2 \in {Emit(w1, "trunc", wanted_type, <<expr_val>>, <<>>)} |->
                 On([trunc_val \in {w2.ret} |->
                     IF ~want_debug_safety THEN w2
                     ELSE On([w3 \in {IF a.is_signed
                                      THEN Emit(w2, "sext", actual_type, <<trunc_val>>, <<>>)
                                      ELSE Emit(w2, "zext", actual_type, <<trunc_val>>, <<>>)} |->
                          On([w4 \in {Emit(w3, "icmp", "eq", <<expr_val, w3.ret>>, <<>>)} |->
                          On([w5 \in {SafetyBranch(w4, w4.ret, "CastShortenOk", "CastShortenFail",
                                                   TRUE, FALSE)} |->
                              Ret(w5, trunc_val)])])])])])])])])])])])])])

gen_overflow_op(w, type_entry, op, val1, val2) ==
    On([w0 \in {get_int_overflow_fn(w, type_entry, op)} |->
    On([fn_val \in {IF w0.aborted THEN "" ELSE w0.module_fns[w0.ret.n]} |->
    On([w1 \in {Emit(w0, "call", fn_val, <<val1, val2>>, <<>>)} |->
    On([result_struct \in {w1.ret} |->
    On([w2 \in {Emit(w1, "extractvalue", "0", <<result_struct>>, <<>>)} |->
    On([result \in {w2.ret} |->
    On([w3 \in {Emit(w2, "extractvalue", "1", <<result_struct>>, <<>>)} |->
    On([w4 \in {SafetyBranch(w3, w3.ret, "OverflowFail", "OverflowOk", FALSE, TRUE)} |->
        Ret(w4, result)])])])])])])])])

\* the overflow check of a left shift that always shifts back logically
gen_overflow_shl_op_logical(w, type_entry, val1, val2) ==
    On([w1 \in {Emit(w, "shl", "", <<val1, val2>>, <<>>)} |->
    On([result \in {w1.ret} |->
    On([w2 \in {Emit(w1, "lshr", "", <<result, val2>>, <<>>)} |->
    On([w3 \in {Emit(w2, "icmp", "eq", <<val1, w2.ret>>, <<>>)} |->
    On([b1 \in {Len(w3.blocks) + 1} |->
    On([w4 \in {[w3 EXCEPT !.blocks = @ \o << [name |-> "OverflowOk", insns |-> <<>>],
                                               [name |-> "OverflowFail", insns |-> <<>>] >>]} |->
    On([w5 \in {Emit(w4, "condbr", "", <<w3.ret>>, <<b1, b1 + 1>>)} |->
    On([w6 \in {Emit([w5 EXCEPT !.cur = b1 + 1], "call", "llvm.debugtrap", <<>>, <<>>)} |->
    On([w7 \in {Emit(w6, "unreachable", "", <<>>, <<>>)} |->
        [w7 EXCEPT !.cur = b1, !.ret = result]])])])])])])])])])

gen_overflow_shl_op(w, type_entry, val1, val2) ==
    On([w0 \in {c_assert(w, Ty(type_entry).id = "Int", "shl of a non-int")} |->
    On([w1 \in {Emit(w0, "shl", "", <<val1, val2>>, <<>>)} |->
    On([result \in {w1.ret} |->
    On([w2 \in {IF Ty(type_entry).is_signed
                THEN Emit(w1, "ashr", "", <<result, val2>>, <<>>)
                ELSE Emit(w1, "lshr", "", <<result, val2>>, <<>>)} |->
    On([w3 \in {Emit(w2, "icmp", "eq", <<val1, w2.ret>>, <<>>)} |->
    On([w4 \in {SafetyBranch(w3, w3.ret, "OverflowOk", "OverflowFail", TRUE, FALSE)} |->
        Ret(w4, result)])])])])])])

\* a division with no test of the divisor and of the remainder
gen_div_unchecked(w, want_debug_safety, val1, val2, type_entry, exact) ==
    IF Ty(type_entry).id = "Float" THEN Emit(w, "fdiv", "", <<val1, val2>>, <<>>)
    ELSE Emit(w, IF Ty(type_entry).is_signed THEN "sdiv" ELSE "udiv",
              IF exact THEN "exact" ELSE "", <<val1, val2>>, <<>>)

gen_div(w, want_debug_safety, val1, val2, type_entry, exact) ==
    On([e  \in {Ty(type_entry)} |->
    On([w1 \in {IF want_debug_safety
                THEN On([a \in {c_assert(w, e.id \in {"Int", "Float"}, "gen_div: zig_unreachable")} |->
                     On([c \in {IF e.id = "Int"
                                THEN Emit(a, "icmp", "eq", <<val2, ConstNull(e.bit_count)>>, <<>>)
                                ELSE Emit(a, "fcmp", "oeq", <<val2, ConstNull(e.bit_count)>>, <<>>)} |->
                         SafetyBranch(c, c.ret, "DivZeroOk", "DivZeroFail", TRUE, TRUE)])])
                ELSE w} |->
        IF e.id = "Float"
        THEN Emit(c_assert(w1, ~exact, "exact float division"), "fdiv", "", <<val1, val2>>, <<>>)
        ELSE
        On([w2 \in {c_assert(w1, e.id = "Int", "gen_div of a non-int")} |->
        IF exact THEN
            On([w3 \in {IF want_debug_safety
                        THEN On([r \in {IF e.is_signed
                                        THEN Emit(w2, "srem", "", <<val1, val2>>, <<>>)
                                        ELSE Emit(w2, "urem", "", <<val1, val2>>, <<>>)} |->
                             On([c \in {Emit(r, "icmp", "eq", <<r.ret, ConstNull(e.bit_count)>>, <<>>)} |->
                                 SafetyBranch(c, c.ret, "DivExactOk", "DivExactFail", TRUE, FALSE)])])
                        ELSE w2} |->
                IF e.is_signed THEN Emit(w3, "sdiv", "exact", <<val1, val2>>, <<>>)
                ELSE Emit(w3, "udiv", "exact", <<val1, val2>>, <<>>)])
        ELSE IF e.is_signed THEN Emit(w2, "sdiv", "", <<val1, val2>>, <<>>)
             ELSE Emit(w2, "udiv", "", <<val1, val2>>, <<>>)])])])

\* g->memcpy_fn_val, g->memset_fn_val
memcpy_fn_val == "llvm.memcpy.p0i8.p0i8.i64"
memset_fn_val == "llvm.memset.p0i8.i64"

gen_struct_memcpy(w, src, dest, type_entry) ==
    On([w0 \in {c_assert(w, handle_is_ptr(type_entry), "memcpy of a non-aggregate")} |->
    On([w1 \in {Emit(w0, "bitcast", "*u8", <<src>>, <<>>)} |->
    On([w2 \in {Emit(w1, "bitcast", "*u8", <<dest>>, <<>>)} |->
        Emit(w2, "call", memcpy_fn_val, <<w2.ret, w1.ret>>, <<>>)])])])

\* an assignment that writes nothing
gen_assign_nothing(w, target_ref, value, op1_type, op2_type) == Ret(w, NullRef)

gen_assign_raw(w, target_ref, value, op1_type, op2_type) ==
    IF ~type_has_bits(op1_type) THEN Ret(w, NullRef)
    ELSE IF handle_is_ptr(op1_type)
    THEN gen_struct_memcpy(c_assert(w, op1_type = op2_type, "assign: types differ"),
                           value, target_ref, op1_type)
    ELSE Ret(Emit(w, "store", "", <<value, target_ref>>, <<>>), NullRef)

(***************************************************************************)
(* The constant emitter.                                                   *)
(***************************************************************************)
\* the magnitude of a bignum, its sign dropped
bignum_magnitude(bn) == bn.x_uint

\* bignum_to_twos_complement: the uint64_t is represented by an integer that is
\* congruent to it modulo 2^64
bignum_to_twos_complement(bn) == IF bn.is_negative THEN 0 - bn.x_uint ELSE bn.x_uint

\* the width of the integer backend type of a type (type_entry->type_ref), 0 when
\* the backend type is not an integer
IntRefBits(t) ==
    On([e \in {Ty(get_underlying_type(t))} |->
    CASE e.id \in {"Int", "Bool", "PureError"} -> e.bit_count
      [] e.id = "Enum" /\ e.gen_field_count = 0 -> Ty(e.tag_type).bit_count
      [] e.id = "ErrorUnion" /\ ~type_has_bits(e.child_type) -> Ty(err_tag_type).bit_count
      [] OTHER -> 0])

\* LLVMConstInt(type_ref, n, false): n is truncated to the width of the type
LLVMConstInt(bits, n) == V("int", n % (2 ^ bits), bits, <<>>)
LLVMConstNull(t) == IF IntRefBits(t) > 0 THEN V("int", 0, IntRefBits(t), <<>>) ELSE VT("null", t)
LLVMGetUndef(t) == VT("undef", t)
LLVMConstStruct(fields) == V("struct", 0, 0, fields)
LLVMConstNamedStruct(t, fields) == [k |-> "named_struct", t |-> t, n |-> 0, m |-> 0, e |-> fields]
LLVMConstArray(t, values) == [k |-> "array", t |-> t, n |-> 0, m |-> 0, e |-> values]
LLVMConstInBoundsGEP(glob, index) == V("gep", glob.n, index, <<>>)

\* LLVMStoreSizeOfType for the types a union member can have
StoreSize(t) == Ty(get_underlying_type(t)).bit_count \div 8

RECURSIVE MaxStoreSize(_, _)
MaxStoreSize(fields, i) ==
    IF i > Len(fields) THEN 0
    ELSE On([rest \in {MaxStoreSize(fields, i + 1)} |->
         On([mine \in {IF type_has_bits(fields[i].type_entry)
                       THEN StoreSize(fields[i].type_entry) ELSE 0} |->
             IF mine > rest THEN mine ELSE rest])])

\* the store size of type_entry->data.enumeration.union_type
UnionStoreSize(t) == MaxStoreSize(Ty(t).fields, 1)

\* get_array_type(g, child_type, size)
get_array_type(child_type, size) ==
    CHOOSE t \in TypeNames :
        Ty(t).id = "Array" /\ Ty(t).child_type = child_type /\ Ty(t).len = size

LLVMAddGlobal(w, t, owner) ==
    IF w.aborted THEN w
    ELSE [w EXCEPT !.globals = Append(@, [type |-> t, init |-> NullRef, owner |-> owner,
                                          name |-> "", linkage |-> "external"]),
                   !.ret = V("global", Len(w.globals) + 1, 0, <<>>)]

\* LLVMAddGlobal(g->module, type, name) for a global that is not the global of a
\* ConstExprValue
LLVMAddGlobalNamed(w, t, name) ==
    IF w.aborted THEN w
    ELSE [w EXCEPT !.globals = Append(@, [type |-> t, init |-> NullRef, owner |-> NullConst,
                                          name |-> name, linkage |-> "external"]),
                   !.ret = V("global", Len(w.globals) + 1, 0, <<>>)]

LLVMSetLinkage(w, glob, linkage) ==
    IF w.aborted THEN w ELSE [w EXCEPT !.globals[glob.n].linkage = linkage]

\* LLVMConstString(str, length, DontNullTerminate): an array of i8, with a trailing
\* zero unless dont_null_terminate; a string is the sequence of its bytes
LLVMConstString(str, dont_null_terminate) ==
    V("string", 0, 0, [i \in 1..Len(str) |-> ConstInt(8, str[i])]
                      \o (IF dont_null_terminate THEN <<>> ELSE <<ConstInt(8, 0)>>))

\* LLVMTypeOf of a constant: the length of an array is the length of the value
LLVMTypeOf(v) == IF v.k = "string" THEN "[N x i8]" ELSE "[N x " \o v.t \o "]"

LLVMConstBitCast(v, t) == [k |-> "bitcast", t |-> t, n |-> 0, m |-> 0, e |-> <<v>>]

LLVMSetInitializer(w, glob, v) ==
    IF w.aborted THEN w ELSE [w EXCEPT !.globals[glob.n].init = v]

\* render_const_val_global without its llvm_global test
render_const_val_global_unguarded(w, type_entry, c) ==
    IF w.aborted THEN w
    ELSE On([a \in {LLVMAddGlobal(w, type_entry, c)} |->
         On([w1 \in {[a EXCEPT !.consts[c].llvm_global = a.ret]} |->
             IF w1.consts[c].llvm_value # NullRef
             THEN LLVMSetInitializer(w1, w1.consts[c].llvm_global, w1.consts[c].llvm_value)
             ELSE w1])])

\* render_const_val_global without its LLVMSetInitializer
render_const_val_global_uninitialized(w, type_entry, c) ==
    IF w.aborted THEN w
    ELSE IF w.consts[c].llvm_global = NullRef
    THEN On([a \in {LLVMAddGlobal(w, type_entry, c)} |->
             [a EXCEPT !.consts[c].llvm_global = a.ret]])
    ELSE w

render_const_val_global(w, type_entry, c) ==
    IF w.aborted THEN w
    ELSE
    On([w1 \in {IF w.consts[c].llvm_global = NullRef
                THEN On([a \in {LLVMAddGlobal(w, type_entry, c)} |->
                         [a EXCEPT !.consts[c].llvm_global = a.ret]])
                ELSE w} |->
        IF w1.consts[c].llvm_value # NullRef
        THEN LLVMSetInitializer(w1, w1.consts[c].llvm_global, w1.consts[c].llvm_value)
        ELSE w1])

\* an activation of gen_const_val: its arguments
Frame(type_entry, c) == [c |-> c, type |-> type_entry]

\* gen_const_val entered with the arguments of an activation that is still on the
\* call stack: the recursion does not end.  The calls from that activation down
\* to this one are made again from this one: a call of gen_const_val for a field,
\* element, payload or child is unconditional, and render_const_val calls it
\* when the llvm_value of the constant is null, and that is assigned only after
\* the activation for the constant has returned, which the one on the stack has not.
Enter(w, type_entry, c) ==
    IF w.aborted THEN w
    ELSE IF \E i \in 1..Len(w.stack) : w.stack[i] = Frame(type_entry, c)
    THEN Abort(w, "unbounded recursion")
    ELSE [w EXCEPT !.stack = Append(@, Frame(type_entry, c))]

Leave(w, v) ==
    IF w.aborted THEN w
    ELSE [w EXCEPT !.stack = SubSeq(@, 1, Len(@) - 1), !.ret = v]

SetLLVMValue(w, c, v) == IF w.aborted THEN w ELSE [w EXCEPT !.consts[c].llvm_value = v]

RECURSIVE gen_const_val(_, _, _)
RECURSIVE render_const_val(_, _, _)
RECURSIVE gen_struct_fields(_, _, _, _, _)
RECURSIVE gen_array_values(_, _, _, _, _)

\* the loop over the source fields of a struct constant; acc is the fields array
gen_struct_fields(w, type_entry, c, i, acc) ==
    IF w.aborted THEN w
    ELSE IF i > Len(Ty(type_entry).fields) THEN Ret(w, V("fields", 0, 0, acc))
    ELSE On([type_struct_field \in {Ty(type_entry).fields[i]} |->
         IF type_struct_field.gen_index = SizeMax
         THEN gen_struct_fields(w, type_entry, c, i + 1, acc)
         ELSE On([r \in {gen_const_val(w, type_struct_field.type_entry, Const(c).fields[i])} |->
                  gen_struct_fields(r, type_entry, c, i + 1,
                                    [acc EXCEPT ![type_struct_field.gen_index + 1] = r.ret])])])

\* the loop over the elements of an array constant
gen_array_values(w, child_type, c, i, acc) ==
    IF w.aborted THEN w
    ELSE IF i > Len(acc) THEN Ret(w, V("values", 0, 0, acc))
    ELSE On([r \in {gen_const_val(w, child_type, Const(c).elements[i])} |->
             gen_array_values(r, child_type, c, i + 1, [acc EXCEPT ![i] = r.ret])])

gen_const_val(w, type_entry, c) ==
    On([cv \in {Const(c)} |->
    On([e  \in {Ty(type_entry)} |->
    On([w0 \in {Enter(w, type_entry, c)} |->

    IF w0.aborted THEN w0
    ELSE IF cv.special = "Runtime" THEN Abort(w0, "gen_const_val: zig_unreachable")
    ELSE IF cv.special = "Undef" THEN Leave(w0, LLVMGetUndef(type_entry))
    ELSE IF cv.special = "Zeroes" THEN Leave(w0, LLVMConstNull(type_entry))
    ELSE
    CASE e.id = "TypeDecl" ->
            On([r \in {gen_const_val(w0, e.child_type, c)} |->    Leave(r, r.ret)])
      [] e.id = "Int" ->
            Leave(w0, LLVMConstInt(e.bit_count, bignum_to_twos_complement(cv.x_bignum)))
      [] e.id = "PureError" ->
            Leave(c_assert(w0, cv.x_pure_err # 0, "null x_pure_err"),
                  LLVMConstInt(Ty("error").bit_count, cv.x_pure_err))
      [] e.id = "Float" ->
            Leave(w0, V("real", bignum_to_twos_complement(cv.x_bignum), e.bit_count, <<>>))
      [] e.id = "Bool" ->
            Leave(w0, IF cv.x_bool THEN ConstAllOnes1 ELSE LLVMConstInt(1, 0))
      [] e.id = "Maybe" ->
            On([child_type \in {e.child_type} |->
            IF Ty(child_type).id \in {"Pointer", "Fn"}
            THEN IF cv.x_maybe # NullConst
                 THEN On([r \in {gen_const_val(w0, child_type, cv.x_maybe)} |->    Leave(r, r.ret)])
                 ELSE Leave(w0, LLVMConstNull(child_type))
            ELSE IF cv.x_maybe # NullConst
                 THEN On([r \in {gen_const_val(w0, child_type, cv.x_maybe)} |->
                          Leave(r, LLVMConstStruct(<<r.ret, ConstAllOnes1>>))])
                 ELSE Leave(w0, LLVMConstStruct(<<LLVMConstNull(child_type), LLVMConstInt(1, 0)>>))])
      [] e.id = "Struct" ->
            On([r \in {gen_struct_fields(w0, type_entry, c, 1,
                                         [i \in 1..e.gen_field_count |-> NullRef])} |->
                Leave(r, LLVMConstNamedStruct(type_entry, r.ret.e))])
      [] e.id = "Union" -> Abort(w0, "zig_panic: TODO")
      [] e.id = "Array" ->
            On([r \in {gen_array_values(w0, e.child_type, c, 1, [i \in 1..e.len |-> NullRef])} |->
                Leave(r, LLVMConstArray(e.child_type, r.ret.e))])
      [] e.id = "Enum" ->
            On([tag_value \in {LLVMConstInt(Ty(e.tag_type).bit_count, cv.tag)} |->
            IF e.gen_field_count = 0 THEN Leave(w0, tag_value)
            ELSE
            On([enum_field \in {e.fields[cv.tag + 1]} |->
            IF type_has_bits(enum_field.type_entry)
            THEN On([pad_bytes \in {UnionStoreSize(type_entry) - StoreSize(enum_field.type_entry)} |->
                 On([r \in {gen_const_val(w0, enum_field.type_entry, cv.payload)} |->
                 On([union_value \in {
                            IF pad_bytes = 0 THEN r.ret
                            ELSE LLVMConstStruct(<<r.ret, V("undef_bytes", pad_bytes, 0, <<>>)>>)} |->
                     Leave(r, LLVMConstNamedStruct(type_entry, <<tag_value, union_value>>))])])])
            ELSE Leave(w0, LLVMConstNamedStruct(type_entry,
                               <<tag_value, VT("undef", "union")>>))])])
      [] e.id = "Pointer" ->
            On([child_type \in {e.child_type} |->
            On([base \in {cv.base_ptr} |->
            On([w1 \in {render_const_val_global(w0, type_entry, c)} |->
                IF cv.index = SizeMax
                THEN On([w2 \in {render_const_val(w1, child_type, base)} |->
                     On([w3 \in {render_const_val_global(w2, child_type, base)} |->
                     On([w4 \in {SetLLVMValue(w3, c, w3.consts[base].llvm_global)} |->
                     On([w5 \in {render_const_val_global(w4, type_entry, c)} |->
                         Leave(w5, w5.consts[c].llvm_value)])])])])
                ELSE On([array_type \in {get_array_type(child_type, Len(Const(base).elements))} |->
                     On([w2 \in {render_const_val(w1, array_type, base)} |->
                     On([w3 \in {render_const_val_global(w2, array_type, base)} |->
                     On([ptr_val \in {LLVMConstInBoundsGEP(w3.consts[base].llvm_global, cv.index)} |->
                     On([w4 \in {SetLLVMValue(w3, c, ptr_val)} |->
                     On([w5 \in {render_const_val_global(w4, type_entry, c)} |->
                         Leave(w5, ptr_val)])])])])])])])])])
      [] e.id = "ErrorUnion" ->
            On([child_type \in {e.child_type} |->
            On([tag_bits \in {Ty(err_tag_type).bit_count} |->
                IF ~type_has_bits(child_type) THEN Leave(w0, LLVMConstInt(tag_bits, cv.err))
                ELSE IF cv.err # 0
                THEN Leave(w0, LLVMConstStruct(<<LLVMConstInt(tag_bits, cv.err),
                                                 LLVMConstNull(child_type)>>))
                ELSE On([r \in {gen_const_val(w0, child_type, cv.payload)} |->
                         Leave(r, LLVMConstStruct(<<LLVMConstNull(err_tag_type), r.ret>>))])])])
      [] e.id = "Void" -> Leave(w0, NullRef)
      [] OTHER -> Abort(w0, "gen_const_val: zig_unreachable")])])])

\* render_const_val without its LLVMSetInitializer
render_const_val_uninitialized(w, type_entry, c) ==
    IF w.aborted THEN w
    ELSE IF w.consts[c].llvm_value = NullRef
    THEN On([r \in {gen_const_val(w, type_entry, c)} |-> SetLLVMValue(r, c, r.ret)])
    ELSE w

render_const_val(w, type_entry, c) ==
    IF w.aborted THEN w
    ELSE
    On([w1 \in {IF w.consts[c].llvm_value = NullRef
                THEN On([r \in {gen_const_val(w, type_entry, c)} |->    SetLLVMValue(r, c, r.ret)])
                ELSE w} |->
        IF w1.aborted THEN w1
        ELSE IF w1.consts[c].llvm_global # NullRef
        THEN LLVMSetInitializer(w1, w1.consts[c].llvm_global, w1.consts[c].llvm_value)
        ELSE w1])

(***************************************************************************)
(* Reading an operand.  An IR instruction read as an operand is a record   *)
(* [iid, type_entry, special, cv]: cv is its static_value.                 *)
(***************************************************************************)
Operand(iid, t, special, cv) == [iid |-> iid, type_entry |-> t, special |-> special, cv |-> cv]

SetIrValue(w, iid, v) == IF w.aborted THEN w ELSE [w EXCEPT !.llvm_value[iid] = v]

\* Every lowering passes through ir_render_instruction and ir_llvm_value;
\* Call(f, ...) is a call of the one named f.
RECURSIVE Call(_, _, _, _, _)

ir_llvm_value(w, instruction) == Call("ir_llvm_value", w, <<>>, <<>>, instruction)

ir_llvm_value_body(w, instruction) ==
    IF w.aborted THEN w
    ELSE IF ~type_has_bits(instruction.type_entry) THEN Ret(w, NullRef)
    ELSE
    On([w1 \in {IF w.llvm_value[instruction.iid] = NullRef
                THEN On([a \in {c_assert(w, instruction.special # "Runtime",
                                         "runtime operand without a value")} |->
                     On([b \in {render_const_val(a, instruction.type_entry, instruction.cv)} |->
                     On([c \in {IF handle_is_ptr(instruction.type_entry)
                                THEN On([d \in {render_const_val_global(b, instruction.type_entry,
                                                                        instruction.cv)} |->
                                         SetIrValue(d, instruction.iid,
                                                    d.consts[instruction.cv].llvm_global)])
                                ELSE SetIrValue(b, instruction.iid,
                                                b.consts[instruction.cv].llvm_value)} |->
                         IF c.aborted THEN c
                         ELSE c_assert(c, c.llvm_value[instruction.iid] # NullRef,
                                       "operand without a value")])])])
                ELSE w} |->
        IF w1.aborted THEN w1
        ELSE IF instruction.special # "Runtime" /\ Ty(instruction.type_entry).id = "Pointer"
        THEN LLVMBuildLoad(w1, w1.consts[instruction.cv].llvm_global)
        ELSE Ret(w1, w1.llvm_value[instruction.iid])])

\* the static operand instruction whose static_value is the constant c
StaticOperand(c) == Operand(c, Const(c).type, Const(c).special, c)

(***************************************************************************)
(* The constant emitter as a state machine: global variables are generated *)
(* and static operands are read, in any order.                             *)
(***************************************************************************)
NoG == [is_release_build |-> FALSE, is_test_build |-> FALSE,
        generate_error_name_table |-> TRUE, error_decls_length |-> 1]
NoIr == [id |-> "None"]
\* no function is being walked, no prototype is being generated
NoWalk == cur_fn = <<>> /\ block_i = 0 /\ instr_i = 0
NoProtos ==
    /\ fn_protos = <<>> /\ fn_proto_i = 0 /\ fn_vals = <<>> /\ test_fn_vals = <<>>
    /\ fn_def_i = 0 /\ fn_defs_gen = <<>>

FnW == LLVMPositionBuilderAtEnd(LLVMAppendBasicBlock(EmptyW, "Entry"), 1)

InitConst ==
    /\ W = FnW
    /\ nreq = 0
    /\ pc = "const"
    /\ g = NoG
    /\ scope = <<>>
    /\ ir = NoIr
    /\ want = FALSE
    /\ NoWalk
    /\ NoProtos

\* do_code_gen, the body of the loop over g->global_vars for a variable that is not
\* extern and whose value is the constant c
GenGlobalVar(c) ==
    /\ pc = "const"
    /\ ~W.aborted
    /\ nreq < MaxRequests
    /\ type_has_bits(Const(c).type)
    /\ W' = render_const_val_global(render_const_val(W, Const(c).type, c), Const(c).type, c)
    /\ nreq' = nreq + 1
    /\ UNCHANGED <<g, scope, ir, pc, want, walker_vars, proto_vars>>

\* an instruction reads the operand whose static value is the constant c
ReadStaticOperand(c) ==
    /\ pc = "const"
    /\ ~W.aborted
    /\ nreq < MaxRequests
    /\ W' = ir_llvm_value(W, StaticOperand(c))
    /\ nreq' = nreq + 1
    /\ UNCHANGED <<g, scope, ir, pc, want, walker_vars, proto_vars>>

NextConst ==
    \/ \E c \in 1..NumConsts : GenGlobalVar(c)
    \/ \E c \in 1..NumConsts : ReadStaticOperand(c)

SpecConst == InitConst /\ [][NextConst]_vars

(***************************************************************************)
(* Reading a backend constant back through the type mapping.  A decoded    *)
(* value and the structure of a constant are trees [k, n, m, e].           *)
(***************************************************************************)
AVoid == V("Void", 0, 0, <<>>)

\* the signed or unsigned reading of the n held in an integer of the given width
IntOfBits(n, bits, is_signed) ==
    IF is_signed /\ n >= 2 ^ (bits - 1) THEN n - 2 ^ bits ELSE n

RECURSIVE Decode(_, _, _)
Decode(w, t, v) ==
    LET e == Ty(t) IN
    IF v.k = "undef" THEN V("Undef", 0, 0, <<>>)
    ELSE IF ~type_has_bits(t) THEN AVoid
    ELSE
    CASE e.id = "TypeDecl" -> Decode(w, e.child_type, v)
      [] e.id = "Int" -> V("Int", IntOfBits(v.n, v.m, e.is_signed), 0, <<>>)
      [] e.id = "PureError" -> V("PureError", v.n, 0, <<>>)
      [] e.id = "Bool" -> V("Bool", v.n, 0, <<>>)
      [] e.id = "Maybe" ->
            IF Ty(e.child_type).id \in {"Pointer", "Fn"}
            THEN IF v.k = "null" THEN V("Maybe", 0, 0, <<>>)
                 ELSE V("Maybe", 1, 0, <<Decode(w, e.child_type, v)>>)
            ELSE IF v.e[2].n = 1 THEN V("Maybe", 1, 0, <<Decode(w, e.child_type, v.e[1])>>)
                 ELSE V("Maybe", 0, 0, <<>>)
      [] e.id = "Struct" ->
            V("Struct", 0, 0,
              [i \in 1..Len(e.fields) |->
                  IF e.fields[i].gen_index = SizeMax THEN AVoid
                  ELSE Decode(w, e.fields[i].type_entry, v.e[e.fields[i].gen_index + 1])])
      [] e.id = "Array" ->
            V("Array", 0, 0, [i \in 1..Len(v.e) |-> Decode(w, e.child_type, v.e[i])])
      [] e.id = "Enum" ->
            IF e.gen_field_count = 0 THEN V("Enum", v.n, 0, <<AVoid>>)
            ELSE LET tag == v.e[1].n
                     field_type == e.fields[tag + 1].type_entry
                     padded == UnionStoreSize(t) # StoreSize(field_type)
                 IN  IF ~type_has_bits(field_type) THEN V("Enum", tag, 0, <<AVoid>>)
                     ELSE V("Enum", tag, 0,
                            <<Decode(w, field_type, IF padded THEN v.e[2].e[1] ELSE v.e[2])>>)
      [] e.id = "Pointer" ->
            V("Pointer", w.globals[v.n].owner, IF v.k = "gep" THEN v.m ELSE SizeMax, <<>>)
      [] e.id = "ErrorUnion" ->
            IF ~type_has_bits(e.child_type) THEN V("ErrorUnion", v.n, 0, <<>>)
            ELSE IF v.e[1].n # 0 THEN V("ErrorUnion", v.e[1].n, 0, <<>>)
            ELSE V("ErrorUnion", 0, 0, <<Decode(w, e.child_type, v.e[2])>>)
      [] OTHER -> V("?", 0, 0, <<>>)

\* the structure of the constant c read at type t
RECURSIVE Structure(_, _)
Structure(t, c) ==
    LET e == Ty(t)
        cv == Const(c)
    IN
    IF cv.special = "Undef" THEN V("Undef", 0, 0, <<>>)
    ELSE IF ~type_has_bits(t) THEN AVoid
    ELSE
    CASE e.id = "TypeDecl" -> Structure(e.child_type, c)
      [] e.id = "Int" ->
            V("Int", IF cv.x_bignum.is_negative THEN 0 - cv.x_bignum.x_uint
                     ELSE cv.x_bignum.x_uint, 0, <<>>)
      [] e.id = "PureError" -> V("PureError", cv.x_pure_err, 0, <<>>)
      [] e.id = "Bool" -> V("Bool", IF cv.x_bool THEN 1 ELSE 0, 0, <<>>)
      [] e.id = "Maybe" ->
            IF cv.x_maybe = NullConst THEN V("Maybe", 0, 0, <<>>)
            ELSE V("Maybe", 1, 0, <<Structure(e.child_type, cv.x_maybe)>>)
      [] e.id = "Struct" ->
            V("Struct", 0, 0,
              [i \in 1..Len(e.fields) |-> Structure(e.fields[i].type_entry, cv.fields[i])])
      [] e.id = "Array" ->
            V("Array", 0, 0, [i \in 1..e.len |-> Structure(e.child_type, cv.elements[i])])
      [] e.id = "Enum" ->
            V("Enum", cv.tag, 0,
              <<IF type_has_bits(e.fields[cv.tag + 1].type_entry)
                THEN Structure(e.fields[cv.tag + 1].type_entry, cv.payload) ELSE AVoid>>)
      [] e.id = "Pointer" -> V("Pointer", cv.base_ptr, cv.index, <<>>)
      [] e.id = "ErrorUnion" ->
            IF cv.err # 0 THEN V("ErrorUnion", cv.err, 0, <<>>)
            ELSE IF ~type_has_bits(e.child_type) THEN V("ErrorUnion", 0, 0, <<>>)
            ELSE V("ErrorUnion", 0, 0, <<Structure(e.child_type, cv.payload)>>)
      [] OTHER -> V("??", 0, 0, <<>>)

\* the constants whose rendering has completed
Rendered == {c \in 1..NumConsts : W.consts[c].llvm_value # NullRef}

\* C5: rendering a constant terminates for every constant graph, pointer cycles
\* included: no request re-enters gen_const_val in a state it was already entered in
C5_RenderingTerminates == W.why # "unbounded recursion"

\* the global a pointer value refers to: a direct address or an in-bounds GEP
GlobalOf(v) == v.n

PointerConsts ==
    {c \in 1..NumConsts : Const(c).special = "Static" /\ Ty(Const(c).type).id = "Pointer"}

\* C6: at most one global is ever created per constant, and two rendered pointer
\* constants with the same base_ptr refer to the same global, the one of the base
C6_OneGlobalPerConstant ==
    /\ \A i, j \in 1..Len(W.globals) : W.globals[i].owner = W.globals[j].owner => i = j
    /\ \A p, q \in PointerConsts \cap Rendered :
          Const(p).base_ptr = Const(q).base_ptr =>
             /\ GlobalOf(W.consts[p].llvm_value) = GlobalOf(W.consts[q].llvm_value)
             /\ W.globals[GlobalOf(W.consts[p].llvm_value)].owner = Const(p).base_ptr

C6_Witness ==
    /\ ~W.aborted
    /\ \E p, q \in PointerConsts \cap Rendered :
          /\ p # q
          /\ Const(p).base_ptr = Const(q).base_ptr
          /\ W.consts[p].llvm_value.k = "gep"

\* C10: every rendered Static constant decodes, through the type mapping, to the
\* structure of the constant, and the global a rendered pointer refers to is
\* initialized with a value that decodes to the structure of the pointee
C10_RoundTrip ==
    \A c \in Rendered :
        Const(c).special = "Static" /\ ~W.aborted =>
            /\ Decode(W, Const(c).type, W.consts[c].llvm_value) = Structure(Const(c).type, c)
            /\ c \in PointerConsts =>
                  LET pointee == W.globals[GlobalOf(W.consts[c].llvm_value)]
                  IN  /\ pointee.init # NullRef
                      /\ Decode(W, pointee.type, pointee.init)
                             = Structure(pointee.type, Const(c).base_ptr)

C10_Witness ==
    /\ ~W.aborted
    /\ \E c, d \in Rendered :
          /\ Ty(Const(c).type).id = "Enum" /\ Const(c).tag = 1 /\ Const(c).payload # NullConst
          /\ Ty(Const(d).type).id = "Int" /\ Const(d).x_bignum.is_negative

(***************************************************************************)
(* IR instructions.  An instruction is a record; ops are the instructions  *)
(* it reads as operands, in the order of the fields of its C struct.       *)
(***************************************************************************)
NoVar == [type |-> "void", ref_count |-> 0, value_ref |-> NullRef]
NoFn == [return_type |-> "void", is_extern |-> FALSE, is_var_args |-> FALSE]
NoField == SF("void", SizeMax)

\* the id of the instruction that is lowered
LoweredIid == NumConsts + MaxRuntimeOps + 1

Ir(id, op_id, t, ops) ==
    [iid |-> LoweredIid, id |-> id, op_id |-> op_id, type_entry |-> t, ops |-> ops,
     safety_check_on |-> TRUE, tmp_ptr |-> NullRef, var |-> NoVar, fn |-> NoFn,
     field |-> NoField, return_count |-> 0, bbs |-> <<>>,
     special |-> "Runtime", cv |-> NullConst, ref_count |-> 1, side_effects |-> FALSE]

\* the k-th runtime operand instruction, of type t
RtOp(k, t) == Operand(NumConsts + k, t, "Runtime", NullConst)

\* g->cur_ret_ptr, the first parameter of a function that returns an aggregate
cur_ret_ptr(fn) == IF handle_is_ptr(fn.return_type) THEN Named("param", 0) ELSE NullRef

ir_render_return(w, gg, sc, I) ==
    On([w1 \in {ir_llvm_value(w, I.ops[1])} |->
    On([value \in {w1.ret} |->
    On([return_type \in {I.fn.return_type} |->
        IF handle_is_ptr(return_type)
        THEN IF I.fn.is_extern
             THEN On([w2 \in {LLVMBuildLoad(w1, value)} |->
                      Ret(Emit(w2, "ret", "", <<w2.ret>>, <<>>), NullRef)])
             ELSE On([w2 \in {c_assert(w1, cur_ret_ptr(I.fn) # NullRef, "no cur_ret_ptr")} |->
                  On([w3 \in {gen_assign_raw(w2, cur_ret_ptr(I.fn), value, return_type,
                                             I.ops[1].type_entry)} |->
                      Ret(Emit(w3, "ret void", "", <<>>, <<>>), NullRef)])])
        ELSE Ret(Emit(w1, "ret", "", <<value>>, <<>>), NullRef)])])])

cmp_op_to_int_predicate(cmp_op, is_signed) ==
    CASE cmp_op = "CmpEq"          -> "eq"
      [] cmp_op = "CmpNotEq"       -> "ne"
      [] cmp_op = "CmpLessThan"    -> IF is_signed THEN "slt" ELSE "ult"
      [] cmp_op = "CmpGreaterThan" -> IF is_signed THEN "sgt" ELSE "ugt"
      [] cmp_op = "CmpLessOrEq"    -> IF is_signed THEN "sle" ELSE "ule"
      [] cmp_op = "CmpGreaterOrEq" -> IF is_signed THEN "sge" ELSE "uge"

cmp_op_to_real_predicate(cmp_op) ==
    CASE cmp_op = "CmpEq"          -> "oeq"
      [] cmp_op = "CmpNotEq"       -> "one"
      [] cmp_op = "CmpLessThan"    -> "olt"
      [] cmp_op = "CmpGreaterThan" -> "ogt"
      [] cmp_op = "CmpLessOrEq"    -> "ole"
      [] cmp_op = "CmpGreaterOrEq" -> "oge"

CmpOps == {"CmpEq", "CmpNotEq", "CmpLessThan", "CmpGreaterThan", "CmpLessOrEq", "CmpGreaterOrEq"}

\* an arithmetic operator that is wrapping, checked, or no-wrap by signedness
CheckedArith(w, want_debug_safety, t, is_wrapping, name, add_sub_mul, v1, v2) ==
    IF is_wrapping THEN Emit(w, name, "", <<v1, v2>>, <<>>)
    ELSE IF want_debug_safety THEN gen_overflow_op(w, t, add_sub_mul, v1, v2)
    ELSE IF Ty(t).is_signed THEN Emit(w, name, "nsw", <<v1, v2>>, <<>>)
    ELSE Emit(w, name, "nuw", <<v1, v2>>, <<>>)

ir_render_bin_op(w, gg, sc, I) ==
    On([op_id \in {I.op_id} |->
    On([op1 \in {I.ops[1]} |->
    On([op2 \in {I.ops[2]} |->
    On([t   \in {op1.type_entry} |->
    On([e   \in {Ty(t)} |->
    On([w0  \in {c_assert(w, op1.type_entry = op2.type_entry, "bin op: operand types differ")} |->
    On([want_debug_safety \in {I.safety_check_on /\ ir_want_debug_safety(gg, sc)} |->
    On([w1  \in {ir_llvm_value(w0, op1)} |->
    On([v1  \in {w1.ret} |->
    On([w2  \in {ir_llvm_value(w1, op2)} |->
    On([v2  \in {w2.ret} |->
    On([bad \in {Abort(w2, "bin op: zig_unreachable")} |->

    CASE op_id \in {"Invalid", "ArrayCat", "ArrayMult"} -> bad
      [] op_id = "BoolOr"  -> Emit(w2, "or", "", <<v1, v2>>, <<>>)
      [] op_id = "BoolAnd" -> Emit(w2, "and", "", <<v1, v2>>, <<>>)
      [] op_id \in CmpOps ->
            IF e.id = "Float"
            THEN Emit(w2, "fcmp", cmp_op_to_real_predicate(op_id), <<v1, v2>>, <<>>)
            ELSE IF e.id = "Int"
            THEN Emit(w2, "icmp", cmp_op_to_int_predicate(op_id, e.is_signed), <<v1, v2>>, <<>>)
            ELSE IF e.id = "Enum"
            THEN IF e.gen_field_count = 0
                 THEN Emit(w2, "icmp", cmp_op_to_int_predicate(op_id, FALSE), <<v1, v2>>, <<>>)
                 ELSE bad
            ELSE IF e.id \in {"PureError", "Pointer", "Bool"}
            THEN Emit(w2, "icmp", cmp_op_to_int_predicate(op_id, FALSE), <<v1, v2>>, <<>>)
            ELSE bad
      [] op_id \in {"Add", "AddWrap"} ->
            IF e.id = "Float" THEN Emit(w2, "fadd", "", <<v1, v2>>, <<>>)
            ELSE IF e.id = "Int"
            THEN CheckedArith(w2, want_debug_safety, t, op_id = "AddWrap", "add",
                              AddSubMulAdd, v1, v2)
            ELSE bad
      [] op_id = "BinOr"  -> Emit(w2, "or", "", <<v1, v2>>, <<>>)
      [] op_id = "BinXor" -> Emit(w2, "xor", "", <<v1, v2>>, <<>>)
      [] op_id = "BinAnd" -> Emit(w2, "and", "", <<v1, v2>>, <<>>)
      [] op_id \in {"BitShiftLeft", "BitShiftLeftWrap"} ->
            On([w3 \in {c_assert(w2, e.id = "Int", "shift of a non-int")} |->
            IF op_id = "BitShiftLeftWrap" THEN Emit(w3, "shl", "", <<v1, v2>>, <<>>)
            ELSE IF want_debug_safety THEN gen_overflow_shl_op(w3, t, v1, v2)
            ELSE IF e.is_signed THEN Emit(w3, "shl", "nsw", <<v1, v2>>, <<>>)
            ELSE Emit(w3, "shl", "nuw", <<v1, v2>>, <<>>)])
      [] op_id = "BitShiftRight" ->
            On([w3 \in {c_assert(w2, e.id = "Int", "shift of a non-int")} |->
            IF e.is_signed THEN Emit(w3, "ashr", "", <<v1, v2>>, <<>>)
            ELSE Emit(w3, "lshr", "", <<v1, v2>>, <<>>)])
      [] op_id \in {"Sub", "SubWrap"} ->
            IF e.id = "Float" THEN Emit(w2, "fsub", "", <<v1, v2>>, <<>>)
            ELSE IF e.id = "Int"
            THEN CheckedArith(w2, want_debug_safety, t, op_id = "SubWrap", "sub",
                              AddSubMulSub, v1, v2)
            ELSE bad
      [] op_id \in {"Mult", "MultWrap"} ->
            IF e.id = "Float" THEN Emit(w2, "fmul", "", <<v1, v2>>, <<>>)
            ELSE IF e.id = "Int"
            THEN CheckedArith(w2, want_debug_safety, t, op_id = "MultWrap", "mul",
                              AddSubMulMul, v1, v2)
            ELSE bad
      [] op_id = "Div" -> gen_div(w2, want_debug_safety, v1, v2, t, FALSE)
      [] op_id = "Mod" ->
            IF e.id = "Float" THEN Emit(w2, "frem", "", <<v1, v2>>, <<>>)
            ELSE On([w3 \in {c_assert(w2, e.id = "Int", "mod of a non-int")} |->
                 IF e.is_signed THEN Emit(w3, "srem", "", <<v1, v2>>, <<>>)
                 ELSE Emit(w3, "urem", "", <<v1, v2>>, <<>>)])
      [] OTHER -> bad])])])])])])])])])])])])

LLVMBuildStructGEP(w, ptr, index) == Emit(w, "structgep", ToString(index), <<ptr>>, <<>>)
LLVMBuildStore(w, value, ptr) ==
    IF ptr = NullRef /\ w.backend_asserts THEN Abort(w, "LLVMBuildStore(nullptr)")
    ELSE Emit(w, "store", "", <<value, ptr>>, <<>>)
LLVMBuildBitCast(w, value, t) == Emit(w, "bitcast", t, <<value>>, <<>>)

\* type_size(g, type): the store size of a slice element
type_size(t) == StoreSize(t)

ir_render_cast(w, gg, sc, I) ==
    On([actual_type \in {I.ops[1].type_entry} |->
    On([wanted_type \in {I.type_entry} |->
    On([a  \in {Ty(actual_type)} |->
    On([t  \in {Ty(wanted_type)} |->
    On([w0 \in {ir_llvm_value(w, I.ops[1])} |->
    On([expr_val \in {w0.ret} |->
    On([w1 \in {c_assert(w0, expr_val # NullRef, "cast of no value")} |->
    On([want_safety \in {ir_want_debug_safety(gg, sc)} |->
    On([cast_op \in {I.op_id} |->

    CASE cast_op = "Noop" -> Ret(w1, expr_val)
      [] cast_op = "ErrToInt" ->
            On([w2 \in {c_assert(w1, a.id = "ErrorUnion", "ErrToInt of a non-error-union")} |->
            IF w2.aborted THEN w2
            ELSE IF ~type_has_bits(a.child_type)
            THEN gen_widen_or_shorten(w2, want_safety, err_tag_type, wanted_type, expr_val)
            ELSE Abort(w2, "zig_panic: TODO")])
      [] cast_op = "MaybeWrap" ->
            On([w2 \in {c_assert(c_assert(w1, I.tmp_ptr # NullRef, "no tmp_ptr"),
                                 t.id = "Maybe", "MaybeWrap to a non-maybe")} |->
            On([child_type \in {t.child_type} |->
                IF w2.aborted THEN w2
                ELSE IF Ty(child_type).id \in {"Pointer", "Fn"} THEN Ret(w2, expr_val)
                ELSE On([w3 \in {LLVMBuildStructGEP(w2, I.tmp_ptr, 0)} |->
                     On([w4 \in {gen_assign_raw(w3, w3.ret, expr_val, child_type, actual_type)} |->
                     On([w5 \in {LLVMBuildStructGEP(w4, I.tmp_ptr, 1)} |->
                     On([w6 \in {LLVMBuildStore(w5, ConstAllOnes1, w5.ret)} |->
                         Ret(w6, I.tmp_ptr)])])])])])])
      [] cast_op = "ErrorWrap" ->
            On([w2 \in {c_assert(w1, t.id = "ErrorUnion", "ErrorWrap to a non-error-union")} |->
            On([child_type \in {t.child_type} |->
            On([ok_err_val \in {LLVMConstNull(err_tag_type)} |->
                IF w2.aborted THEN w2
                ELSE IF ~type_has_bits(child_type) THEN Ret(w2, ok_err_val)
                ELSE On([w3 \in {c_assert(w2, I.tmp_ptr # NullRef, "no tmp_ptr")} |->
                     On([w4 \in {LLVMBuildStructGEP(w3, I.tmp_ptr, 0)} |->
                     On([w5 \in {LLVMBuildStore(w4, ok_err_val, w4.ret)} |->
                     On([w6 \in {LLVMBuildStructGEP(w5, I.tmp_ptr, 1)} |->
                     On([w7 \in {gen_assign_raw(w6, w6.ret, expr_val, child_type, actual_type)} |->
                         Ret(w7, I.tmp_ptr)])])])])])])])])
      [] cast_op = "PureErrorWrap" ->
            On([w2 \in {c_assert(w1, t.id = "ErrorUnion", "PureErrorWrap to a non-error-union")} |->
            IF w2.aborted THEN w2
            ELSE IF ~type_has_bits(t.child_type) THEN Ret(w2, expr_val)
            ELSE Abort(w2, "zig_panic: TODO")])
      [] cast_op = "PtrToInt" -> Emit(w1, "ptrtoint", wanted_type, <<expr_val>>, <<>>)
      [] cast_op = "IntToPtr" -> Emit(w1, "inttoptr", wanted_type, <<expr_val>>, <<>>)
      [] cast_op = "PointerReinterpret" -> LLVMBuildBitCast(w1, expr_val, wanted_type)
      [] cast_op = "WidenOrShorten" ->
            gen_widen_or_shorten(w1, want_safety, actual_type, wanted_type, expr_val)
      [] cast_op = "ToUnknownSizeArray" ->
            On([w2 \in {c_assert(c_assert(w1, I.tmp_ptr # NullRef, "no tmp_ptr"),
                                 t.id = "Struct" /\ t.is_slice, "cast to a non-slice")} |->
                IF w2.aborted THEN w2 ELSE
                On([pointer_type \in {t.fields[1].type_entry} |->
                On([ptr_index \in {t.fields[1].gen_index} |->
                On([w3 \in {IF ptr_index # SizeMax
                            THEN On([x \in {LLVMBuildStructGEP(w2, I.tmp_ptr, ptr_index)} |->
                                 On([y \in {LLVMBuildBitCast(x, expr_val, pointer_type)} |->
                                     LLVMBuildStore(y, y.ret, x.ret)])])
                            ELSE w2} |->
                On([len_index \in {t.fields[2].gen_index} |->
                On([w4 \in {LLVMBuildStructGEP(w3, I.tmp_ptr, len_index)} |->
                On([w5 \in {LLVMBuildStore(w4, V("int", a.len, 64, <<>>), w4.ret)} |->
                    Ret(w5, I.tmp_ptr)])])])])])])])
      [] cast_op = "ResizeSlice" ->
            On([w2 \in {c_assert(c_assert(c_assert(w1, I.tmp_ptr # NullRef, "no tmp_ptr"),
                                          t.id = "Struct" /\ t.is_slice, "cast to a non-slice"),
                                 a.id = "Struct" /\ a.is_slice, "cast of a non-slice")} |->
                IF w2.aborted THEN w2 ELSE
                On([actual_child_type \in {Ty(a.fields[1].type_entry).child_type} |->
                On([wanted_child_type \in {Ty(t.fields[1].type_entry).child_type} |->
                On([x1 \in {LLVMBuildStructGEP(w2, expr_val, a.fields[1].gen_index)} |->
                On([x2 \in {LLVMBuildLoad(x1, x1.ret)} |->
                On([x3 \in {LLVMBuildBitCast(x2, x2.ret, t.fields[1].type_entry)} |->
                On([x4 \in {LLVMBuildStructGEP(x3, I.tmp_ptr, t.fields[1].gen_index)} |->
                On([x5 \in {LLVMBuildStore(x4, x3.ret, x4.ret)} |->
                On([x6 \in {LLVMBuildStructGEP(x5, expr_val, a.fields[2].gen_index)} |->
                On([x7 \in {LLVMBuildLoad(x6, x6.ret)} |->
                On([src_len \in {x7.ret} |->
                On([src_size \in {type_size(actual_child_type)} |->
                On([dest_size \in {type_size(wanted_child_type)} |->
                On([x8 \in {IF dest_size = 1
                            THEN Emit(x7, "mul", "", <<src_len, V("int", src_size, 64, <<>>)>>, <<>>)
                            ELSE IF src_size = 1
                            THEN On([dest_size_val \in {V("int", dest_size, 64, <<>>)} |->
                                 On([y \in {IF want_safety
                                            THEN On([r \in {Emit(x7, "urem", "",
                                                                 <<src_len, dest_size_val>>, <<>>)} |->
                                                 On([c \in {Emit(r, "icmp", "eq",
                                                                 <<r.ret, LLVMConstNull(entry_usize)>>, <<>>)} |->
                                                     SafetyBranch(c, c.ret, "SliceWidenOk",
                                                                  "SliceWidenFail", TRUE, FALSE)])])
                                            ELSE x7} |->
                                     Emit(y, "udiv", "exact", <<src_len, dest_size_val>>, <<>>)])])
                            ELSE Abort(x7, "resize slice: zig_unreachable")} |->
                On([x9 \in {LLVMBuildStructGEP(x8, I.tmp_ptr, t.fields[2].gen_index)} |->
                On([x10 \in {LLVMBuildStore(x9, x8.ret, x9.ret)} |->
                    Ret(x10, I.tmp_ptr)])])])])])])])])])])])])])])])])
      [] cast_op = "BytesToSlice" ->
            On([w2 \in {c_assert(c_assert(c_assert(w1, I.tmp_ptr # NullRef, "no tmp_ptr"),
                                          t.id = "Struct" /\ t.is_slice, "cast to a non-slice"),
                                 a.id = "Array", "cast of a non-array")} |->
                IF w2.aborted THEN w2 ELSE
                On([wanted_pointer_type \in {t.fields[1].type_entry} |->
                On([wanted_child_type \in {Ty(wanted_pointer_type).child_type} |->
                On([x1 \in {LLVMBuildStructGEP(w2, I.tmp_ptr, t.fields[1].gen_index)} |->
                On([x2 \in {LLVMBuildBitCast(x1, expr_val, wanted_pointer_type)} |->
                On([x3 \in {LLVMBuildStore(x2, x2.ret, x1.ret)} |->
                On([x4 \in {LLVMBuildStructGEP(x3, I.tmp_ptr, t.fields[2].gen_index)} |->
                On([x5 \in {LLVMBuildStore(x4, V("int", a.len \div type_size(wanted_child_type),
                                                 64, <<>>), x4.ret)} |->
                    Ret(x5, I.tmp_ptr)])])])])])])])])
      [] cast_op = "IntToFloat" ->
            On([w2 \in {c_assert(w1, a.id = "Int", "IntToFloat of a non-int")} |->
            IF a.is_signed THEN Emit(w2, "sitofp", wanted_type, <<expr_val>>, <<>>)
            ELSE Emit(w2, "uitofp", wanted_type, <<expr_val>>, <<>>)])
      [] cast_op = "FloatToInt" ->
            On([w2 \in {c_assert(w1, t.id = "Int", "FloatToInt to a non-int")} |->
            IF t.is_signed THEN Emit(w2, "fptosi", wanted_type, <<expr_val>>, <<>>)
            ELSE Emit(w2, "fptoui", wanted_type, <<expr_val>>, <<>>)])
      [] cast_op = "BoolToInt" ->
            Emit(c_assert(c_assert(w1, t.id = "Int", "BoolToInt to a non-int"),
                          a.id = "Bool", "BoolToInt of a non-bool"),
                 "zext", wanted_type, <<expr_val>>, <<>>)
      [] cast_op = "IntToEnum" ->
            gen_widen_or_shorten(w1, want_safety, actual_type, t.tag_type, expr_val)
      [] cast_op = "EnumToInt" ->
            gen_widen_or_shorten(w1, want_safety, a.tag_type, wanted_type, expr_val)
      [] OTHER -> Abort(w1, "cast: zig_unreachable")])])])])])])])])])

ir_render_unreachable(w, gg, sc, I) ==
    IF ir_want_debug_safety(gg, sc) \/ gg.is_test_build
    THEN Ret(gen_debug_safety_crash(w), NullRef)
    ELSE Ret(Emit(w, "unreachable", "", <<>>, <<>>), NullRef)

\* W.irb[b] is the IR basic block b: its llvm_block and its llvm_exit_block
\* a conditional branch to the exit blocks of its destinations
ir_render_cond_br_to_exit(w, gg, sc, I) ==
    On([w1 \in {ir_llvm_value(w, I.ops[1])} |->
        Ret(Emit(w1, "condbr", "", <<w1.ret>>,
                 <<w.irb[I.bbs[1]].llvm_exit_block, w.irb[I.bbs[2]].llvm_exit_block>>), NullRef)])

ir_render_cond_br(w, gg, sc, I) ==
    On([w1 \in {ir_llvm_value(w, I.ops[1])} |->
        Ret(Emit(w1, "condbr", "", <<w1.ret>>,
                 <<w.irb[I.bbs[1]].llvm_block, w.irb[I.bbs[2]].llvm_block>>), NullRef)])

ir_render_br(w, gg, sc, I) ==
    Ret(Emit(w, "br", "", <<>>, <<w.irb[I.bbs[1]].llvm_block>>), NullRef)

ir_render_un_op(w, gg, sc, I) ==
    On([op_id \in {I.op_id} |->
    On([w1 \in {ir_llvm_value(w, I.ops[1])} |->
    On([expr \in {w1.ret} |->
    On([expr_type \in {I.ops[1].type_entry} |->
    On([e \in {Ty(expr_type)} |->
    On([want_safety \in {ir_want_debug_safety(gg, sc)} |->

    CASE op_id \in {"Negation", "NegationWrap"} ->
            IF e.id = "Float" THEN Emit(w1, "fneg", "", <<expr>>, <<>>)
            ELSE IF e.id = "Int"
            THEN IF op_id = "NegationWrap" THEN Emit(w1, "neg", "", <<expr>>, <<>>)
                 ELSE IF want_safety
                 THEN gen_overflow_op(w1, expr_type, AddSubMulSub, LLVMConstNull(expr_type), expr)
                 ELSE IF e.is_signed THEN Emit(w1, "neg", "nsw", <<expr>>, <<>>)
                 ELSE Emit(w1, "neg", "nuw", <<expr>>, <<>>)
            ELSE Abort(w1, "un op: zig_unreachable")
      [] op_id = "BoolNot" -> Emit(w1, "icmp", "eq", <<expr, LLVMConstNull(expr_type)>>, <<>>)
      [] op_id = "BinNot" -> Emit(w1, "not", "", <<expr>>, <<>>)
      [] op_id \in {"AddressOf", "ConstAddressOf"} -> Abort(w1, "zig_panic: TODO address of codegen")
      [] op_id = "Dereference" ->
            On([w2 \in {c_assert(w1, e.id = "Pointer", "dereference of a non-pointer")} |->
            IF w2.aborted THEN w2
            ELSE IF ~type_has_bits(expr_type) THEN Ret(w2, NullRef)
            ELSE get_handle_value(w2, expr, e.child_type)])
      [] op_id = "Error" -> Abort(w1, "zig_panic: TODO codegen PrefixOpError")
      [] op_id = "Maybe" -> Abort(w1, "zig_panic: TODO codegen PrefixOpMaybe")
      [] op_id = "UnwrapError" ->
            On([w2 \in {c_assert(w1, e.id = "ErrorUnion", "unwrap of a non-error-union")} |->
            On([child_type \in {e.child_type} |->
                IF w2.aborted THEN w2 ELSE
                On([w3 \in {IF want_safety
                            THEN On([a \in {IF type_has_bits(child_type)
                                            THEN On([x \in {LLVMBuildStructGEP(w2, expr, 0)} |->
                                                     LLVMBuildLoad(x, x.ret)])
                                            ELSE Ret(w2, expr)} |->
                                 On([c \in {Emit(a, "icmp", "eq",
                                                 <<a.ret, LLVMConstNull(err_tag_type)>>, <<>>)} |->
                                     SafetyBranch(c, c.ret, "UnwrapErrError", "UnwrapErrOk",
                                                  FALSE, FALSE)])])
                            ELSE w2} |->
                    IF type_has_bits(child_type)
                    THEN On([x \in {LLVMBuildStructGEP(w3, expr, 1)} |->
                             get_handle_value(x, x.ret, child_type)])
                    ELSE Ret(w3, NullRef)])])])
      [] op_id = "UnwrapMaybe" ->
            On([w2 \in {c_assert(w1, e.id = "Maybe", "unwrap of a non-maybe")} |->
            On([child_type \in {e.child_type} |->
            On([maybe_is_ptr \in {Ty(child_type).id \in {"Pointer", "Fn"}} |->
                IF w2.aborted THEN w2 ELSE
                On([w3 \in {IF want_safety
                            THEN On([c \in {IF maybe_is_ptr
                                            THEN Emit(w2, "icmp", "ne",
                                                      <<expr, LLVMConstNull(child_type)>>, <<>>)
                                            ELSE On([x \in {LLVMBuildStructGEP(w2, expr, 1)} |->
                                                     LLVMBuildLoad(x, x.ret)])} |->
                                     SafetyBranch(c, c.ret, "UnwrapMaybeOk", "UnwrapMaybeNull",
                                                  TRUE, FALSE)])
                            ELSE w2} |->
                    IF maybe_is_ptr THEN Ret(w3, expr)
                    ELSE On([x \in {LLVMBuildStructGEP(w3, expr, 0)} |->
                             get_handle_value(x, x.ret, child_type)])])])])])
      [] op_id \in {"ErrorReturn", "MaybeReturn"} -> Abort(w1, "zig_panic: TODO codegen more un ops")
      [] OTHER -> Abort(w1, "un op: zig_unreachable")])])])])])])

\* no debug-declare is emitted
no_var_debug_decl(w) == w

gen_var_debug_decl(w) == IF w.aborted THEN w ELSE [w EXCEPT !.dbg_declares = @ + 1]

ir_render_decl_var(w, gg, sc, I) ==
    On([var \in {I.var} |->
    On([init_value \in {I.ops[1]} |->

    IF ~type_has_bits(var.type) THEN Ret(w, NullRef)
    ELSE IF var.ref_count = 0 THEN Ret(w, NullRef)
    ELSE
    On([have_init_expr \in {init_value.special \in {"Runtime", "Static"}} |->
    On([want_zeroes \in {init_value.special = "Zeroes"} |->
    On([w1 \in {IF have_init_expr
                THEN On([a \in {ir_llvm_value(w, init_value)} |->
                         gen_assign_raw(a, var.value_ref, a.ret, var.type, init_value.type_entry)])
                ELSE IF ir_want_debug_safety(gg, sc) \/ want_zeroes
                THEN On([fill_char \in {V("int", IF want_zeroes THEN 0 ELSE 170, 8, <<>>)} |->
                     On([a \in {LLVMBuildBitCast(w, var.value_ref, "*u8")} |->
                         Emit(a, "call", memset_fn_val, <<a.ret, fill_char>>, <<>>)])])
                ELSE w} |->
        Ret(gen_var_debug_decl(w1), NullRef)])])])])])

ir_render_load_ptr(w, gg, sc, I) ==
    On([w1 \in {ir_llvm_value(w, I.ops[1])} |->
        get_handle_value(w1, w1.ret, I.type_entry)])

ir_render_store_ptr(w, gg, sc, I) ==
    On([w1 \in {ir_llvm_value(w, I.ops[1])} |->
    On([ptr \in {w1.ret} |->
    On([w2 \in {ir_llvm_value(w1, I.ops[2])} |->
    On([value \in {w2.ret} |->
    On([w3 \in {c_assert(w2, Ty(I.ops[1].type_entry).id = "Pointer", "store to a non-pointer")} |->
    On([op1_type \in {Ty(I.ops[1].type_entry).child_type} |->
    On([op2_type \in {I.ops[2].type_entry} |->
        IF w3.aborted THEN w3
        ELSE IF ~type_has_bits(op1_type) THEN Ret(w3, NullRef)
        ELSE IF handle_is_ptr(op1_type)
        THEN gen_struct_memcpy(c_assert(w3, op1_type = op2_type, "store: types differ"),
                               value, ptr, op1_type)
        ELSE Ret(LLVMBuildStore(w3, value, ptr), NullRef)])])])])])])])

ir_render_var_ptr(w, gg, sc, I) ==
    IF type_has_bits(I.var.type)
    THEN Ret(c_assert(w, I.var.value_ref # NullRef, "variable without a slot"), I.var.value_ref)
    ELSE Ret(w, NullRef)

ir_render_elem_ptr(w, gg, sc, I) ==
    On([w1 \in {ir_llvm_value(w, I.ops[1])} |->
    On([array_ptr_type \in {I.ops[1].type_entry} |->
    On([w2 \in {c_assert(w1, Ty(array_ptr_type).id = "Pointer", "elem ptr of a non-pointer")} |->
    On([array_type \in {Ty(array_ptr_type).child_type} |->
    On([w3 \in {get_handle_value(w2, w1.ret, array_type)} |->
    On([array_ptr \in {w3.ret} |->
    On([w4 \in {ir_llvm_value(w3, I.ops[2])} |->
    On([subscript_value \in {w4.ret} |->
    On([w5 \in {c_assert(w4, subscript_value # NullRef, "no subscript value")} |->
    On([safety_check_on \in {ir_want_debug_safety(gg, sc) /\ I.safety_check_on} |->
    On([usize_zero \in {LLVMConstNull(entry_usize)} |->

    IF w5.aborted THEN w5
    ELSE IF ~type_has_bits(array_type) THEN Ret(w5, NullRef)
    ELSE IF Ty(array_type).id = "Array"
    THEN On([w6 \in {IF safety_check_on
                     THEN add_bounds_check(w5, subscript_value, "eq", NullRef, "ult",
                                           V("int", Ty(array_type).len, 64, <<>>))
                     ELSE w5} |->
             Emit(w6, "inboundsgep", "", <<array_ptr, usize_zero, subscript_value>>, <<>>)])
    ELSE IF Ty(array_type).id = "Pointer"
    THEN Emit(w5, "inboundsgep", "", <<array_ptr, subscript_value>>, <<>>)
    ELSE IF Ty(array_type).id = "Struct"
    THEN On([w6 \in {c_assert(w5, Ty(array_type).is_slice, "elem ptr of a struct")} |->
         On([w7 \in {IF safety_check_on
                     THEN On([len_index \in {Ty(array_type).fields[2].gen_index} |->
                          On([a \in {c_assert(w6, len_index # SizeMax, "slice without len")} |->
                          On([b \in {LLVMBuildStructGEP(a, array_ptr, len_index)} |->
                          On([c \in {LLVMBuildLoad(b, b.ret)} |->
                              add_bounds_check(c, subscript_value, "eq", NullRef, "ult", c.ret)])])])])
                     ELSE w6} |->
         On([ptr_index \in {Ty(array_type).fields[1].gen_index} |->
         On([w8 \in {c_assert(w7, ptr_index # SizeMax, "slice without ptr")} |->
         On([w9 \in {LLVMBuildStructGEP(w8, array_ptr, ptr_index)} |->
         On([w10 \in {LLVMBuildLoad(w9, w9.ret)} |->
             Emit(w10, "inboundsgep", "", <<w10.ret, subscript_value>>, <<>>)])])])])])])
    ELSE Abort(w5, "elem ptr: zig_unreachable")])])])])])])])])])])])

\* the loop over the arguments of a call; acc is gen_param_values
RECURSIVE CallParams(_, _, _, _, _)
CallParams(w, args, call_i, is_var_args, acc) ==
    IF w.aborted THEN w
    ELSE IF call_i > Len(args) THEN Ret(w, V("params", 0, 0, acc))
    ELSE IF is_var_args \/ type_has_bits(args[call_i].type_entry)
    THEN On([w1 \in {ir_llvm_value(w, args[call_i])} |->
         On([w2 \in {c_assert(w1, w1.ret # NullRef, "argument without a value")} |->
             CallParams(w2, args, call_i + 1, is_var_args, Append(acc, w1.ret))])])
    ELSE CallParams(w, args, call_i + 1, is_var_args, acc)

\* I.op_id says whether the callee is fn_entry or fn_ref (then ops[1]); I.fn is
\* fn_type->data.fn.fn_type_id
ZigLLVMBuildCall(w, fn_val, gen_param_values) ==
    IF w.backend_asserts /\ \E i \in 1..Len(gen_param_values) : gen_param_values[i] = NullRef
    THEN Abort(w, "ZigLLVMBuildCall(nullptr)")
    ELSE Emit(w, "call", "fn", <<fn_val>> \o gen_param_values, <<>>)

ir_render_call(w, gg, sc, I) ==
    On([by_ref \in {I.op_id = "fn_ref"} |->
    On([w1 \in {IF by_ref THEN ir_llvm_value(w, I.ops[1]) ELSE Ret(w, Named("fn_entry", 0))} |->
    On([fn_val \in {w1.ret} |->
    On([args \in {IF by_ref THEN Tail(I.ops) ELSE I.ops} |->
    On([src_return_type \in {I.fn.return_type} |->
    On([ret_has_bits \in {type_has_bits(src_return_type)} |->
    On([first_arg_ret \in {ret_has_bits /\ handle_is_ptr(src_return_type)} |->
    On([w2 \in {CallParams(w1, args, 1, I.fn.is_var_args,
                           IF first_arg_ret THEN <<I.tmp_ptr>> ELSE <<>>)} |->
    On([w3 \in {IF w2.aborted THEN w2 ELSE ZigLLVMBuildCall(w2, fn_val, w2.ret.e)} |->
    On([result \in {w3.ret} |->
        IF w3.aborted THEN w3
        ELSE IF Ty(src_return_type).id = "Unreachable"
        THEN Emit(w3, "unreachable", "", <<>>, <<>>)
        ELSE IF ~ret_has_bits THEN Ret(w3, NullRef)
        ELSE IF first_arg_ret THEN Ret(w3, I.tmp_ptr)
        ELSE Ret(w3, result)])])])])])])])])])])

ir_render_struct_field_ptr(w, gg, sc, I) ==
    On([w1 \in {ir_llvm_value(w, I.ops[1])} |->
        IF ~type_has_bits(I.field.type_entry) THEN Ret(w1, NullRef)
        ELSE LLVMBuildStructGEP(c_assert(w1, I.field.gen_index # SizeMax, "field without index"),
                                w1.ret, I.field.gen_index)])

\* enum_gen_union_index
enum_gen_union_index == 1

ir_render_enum_field_ptr(w, gg, sc, I) ==
    On([w1 \in {ir_llvm_value(w, I.ops[1])} |->
        IF ~type_has_bits(I.field.type_entry) THEN Ret(w1, NullRef)
        ELSE On([w2 \in {LLVMBuildStructGEP(w1, w1.ret, enum_gen_union_index)} |->
                 LLVMBuildBitCast(w2, w2.ret, I.field.type_entry)])])

\* the loop over the inputs of an asm expression
RECURSIVE AsmParams(_, _, _, _)
AsmParams(w, inputs, i, acc) ==
    IF w.aborted THEN w
    ELSE IF i > Len(inputs) THEN Ret(w, V("params", 0, 0, acc))
    ELSE On([w1 \in {ir_llvm_value(w, inputs[i])} |->
             AsmParams(w1, inputs, i + 1, Append(acc, w1.ret))])

\* an asm expression whose outputs are all returned: ops is its input_list
ir_render_asm(w, gg, sc, I) ==
    On([w0 \in {c_assert(w, I.return_count \in {0, 1}, "asm with several returns")} |->
    On([w1 \in {AsmParams(w0, I.ops, 1, <<>>)} |->
        Emit(w1, "call", "asm", w1.ret.e, <<>>)])])

maybe_child_index == 0
maybe_null_index == 1

\* 0 - null, 1 - non null
gen_null_bit(w, ptr_type, maybe_ptr) ==
    On([w0 \in {c_assert(w, Ty(ptr_type).id = "Pointer", "null bit of a non-pointer")} |->
    On([maybe_type \in {Ty(ptr_type).child_type} |->
    On([w1 \in {c_assert(w0, Ty(maybe_type).id = "Maybe", "null bit of a non-maybe")} |->
    On([child_type \in {Ty(maybe_type).child_type} |->
        IF w1.aborted THEN w1 ELSE
        On([w2 \in {get_handle_value(w1, maybe_ptr, maybe_type)} |->
        On([maybe_struct_ref \in {w2.ret} |->
            IF Ty(child_type).id \in {"Pointer", "Fn"}
            THEN Emit(w2, "icmp", "ne", <<maybe_struct_ref, LLVMConstNull(child_type)>>, <<>>)
            ELSE On([w3 \in {LLVMBuildStructGEP(w2, maybe_struct_ref, maybe_null_index)} |->
                     LLVMBuildLoad(w3, w3.ret)])])])])])])])

ir_render_test_null(w, gg, sc, I) ==
    On([ptr_type \in {I.ops[1].type_entry} |->
    On([w0 \in {c_assert(w, Ty(ptr_type).id = "Pointer", "test null of a non-pointer")} |->
    On([w1 \in {ir_llvm_value(w0, I.ops[1])} |->
        gen_null_bit(w1, ptr_type, w1.ret)])])])

ir_render_unwrap_maybe(w, gg, sc, I) ==
    On([ptr_type \in {I.ops[1].type_entry} |->
    On([w0 \in {c_assert(w, Ty(ptr_type).id = "Pointer", "unwrap of a non-pointer")} |->
    On([maybe_type \in {Ty(ptr_type).child_type} |->
    On([w1 \in {c_assert(w0, Ty(maybe_type).id = "Maybe", "unwrap of a non-maybe")} |->
    On([child_type \in {Ty(maybe_type).child_type} |->
        IF w1.aborted THEN w1 ELSE
        On([maybe_is_ptr \in {Ty(child_type).id \in {"Pointer", "Fn"}} |->
        On([w2 \in {ir_llvm_value(w1, I.ops[1])} |->
        On([maybe_ptr \in {w2.ret} |->
        On([w3 \in {IF ir_want_debug_safety(gg, sc) /\ I.safety_check_on
                    THEN On([a \in {gen_null_bit(w2, ptr_type, maybe_ptr)} |->
                             SafetyBranch(a, a.ret, "UnwrapMaybeOk", "UnwrapMaybeFail", TRUE, FALSE)])
                    ELSE w2} |->
            IF maybe_is_ptr THEN Ret(w3, maybe_ptr)
            ELSE On([w4 \in {get_handle_value(w3, maybe_ptr, maybe_type)} |->
                     LLVMBuildStructGEP(w4, w4.ret, maybe_child_index)])])])])])])])])])])

\* a lookup that declares the intrinsic at every request
get_int_builtin_fn_unmemoized(w, int_type, fn_id) ==
    LLVMAddFunction(w, "llvm." \o (IF fn_id = "Ctz" THEN "cttz" ELSE "ctlz") \o ".i"
                           \o ToString(Ty(int_type).bit_count))

get_int_builtin_fn(w, int_type, fn_id) ==
    On([index0 \in {IF fn_id = "Ctz" THEN 0 ELSE 1} |->
    On([index1 \in {bits_index(Ty(int_type).bit_count)} |->
    On([key \in {<<index0, index1, 0>>} |->
    On([w0 \in {c_assert(w, index1 # SizeMax, "bits_index: zig_unreachable")} |->
    On([hit \in {{e \in w0.int_builtin_fns : e.key = key}} |->
        IF w0.aborted THEN w0
        ELSE IF hit # {} THEN Ret(w0, (CHOOSE e \in hit : TRUE).fn)
        ELSE On([fn_name \in {IF fn_id = "Ctz" THEN "cttz" ELSE "ctlz"} |->
             On([w1 \in {LLVMAddFunction(w0, "llvm." \o fn_name \o ".i"
                                                 \o ToString(Ty(int_type).bit_count))} |->
                 [w1 EXCEPT !.int_builtin_fns = @ \cup {[key |-> key, fn |-> w1.ret]}]])])])])])])])

\* ir_render_clz and ir_render_ctz, which differ in the builtin they call
ir_render_clz_ctz(w, gg, sc, I, fn_id) ==
    On([w1 \in {get_int_builtin_fn(w, I.type_entry, fn_id)} |->
    On([fn_val \in {IF w1.aborted THEN "" ELSE w1.module_fns[w1.ret.n]} |->
    On([w2 \in {ir_llvm_value(w1, I.ops[1])} |->
        Emit(w2, "call", fn_val, <<w2.ret, LLVMConstInt(1, 0)>>, <<>>)])])])

ir_render_clz(w, gg, sc, I) == ir_render_clz_ctz(w, gg, sc, I, "Clz")
ir_render_ctz(w, gg, sc, I) == ir_render_clz_ctz(w, gg, sc, I, "Ctz")

\* LLVMAddCase, LLVMAddIncoming: the backend instruction with the given id gets
\* further operands and blocks
AddOperands(w, id, values, bbs) ==
    IF w.aborted THEN w
    ELSE [w EXCEPT !.blocks =
            [b \in 1..Len(w.blocks) |->
                [w.blocks[b] EXCEPT !.insns =
                    [j \in 1..Len(w.blocks[b].insns) |->
                        IF w.blocks[b].insns[j].id = id
                        THEN [w.blocks[b].insns[j] EXCEPT !.args = @ \o values, !.bbs = @ \o bbs]
                        ELSE w.blocks[b].insns[j]]]]]

\* the loop over the cases of a switch: ops[1] is the target, ops[i + 1] the value
\* of case i, bbs[1] the else block, bbs[i + 1] the block of case i
RECURSIVE SwitchCases(_, _, _, _)
SwitchCases(w, I, switch_instr, i) ==
    IF w.aborted THEN w
    ELSE IF i + 1 > Len(I.ops) THEN w
    ELSE On([w1 \in {ir_llvm_value(w, I.ops[i + 1])} |->
         On([w2 \in {AddOperands(w1, switch_instr.n, <<w1.ret>>, <<w.irb[I.bbs[i + 1]].llvm_block>>)} |->
             SwitchCases(w2, I, switch_instr, i + 1)])])

ir_render_switch_br(w, gg, sc, I) ==
    On([w1 \in {ir_llvm_value(w, I.ops[1])} |->
    On([w2 \in {Emit(w1, "switch", "", <<w1.ret>>, <<w.irb[I.bbs[1]].llvm_block>>)} |->
        Ret(SwitchCases(w2, I, w2.ret, 1), NullRef)])])

\* the loop over the incoming edges of a phi
RECURSIVE PhiIncoming(_, _, _, _, _)
PhiIncoming(w, I, i, incoming_values, incoming_blocks) ==
    IF w.aborted THEN w
    ELSE IF i > Len(I.ops)
    THEN [w EXCEPT !.ret = [k |-> "incoming", t |-> "", n |-> 0, m |-> 0,
                            e |-> <<V("values", 0, 0, incoming_values),
                                    V("blocks", 0, 0, incoming_blocks)>>]]
    ELSE On([w1 \in {ir_llvm_value(w, I.ops[i])} |->
             PhiIncoming(w1, I, i + 1, Append(incoming_values, w1.ret),
                         Append(incoming_blocks, V("block", w1.irb[I.bbs[i]].llvm_exit_block, 0, <<>>)))])

BlockHandles(vs) == [i \in 1..Len(vs) |-> vs[i].n]

ir_render_phi(w, gg, sc, I) ==
    On([w1 \in {Emit(w, "phi", I.type_entry, <<>>, <<>>)} |->
    On([phi \in {w1.ret} |->
    On([w2 \in {PhiIncoming(w1, I, 1, <<>>, <<>>)} |->
    On([w3 \in {IF w2.aborted THEN w2
                ELSE AddOperands(w2, phi.n, w2.ret.e[1].e, BlockHandles(w2.ret.e[2].e))} |->
        Ret(w3, phi)])])])])

ir_render_ref(w, gg, sc, I) ==
    On([w1 \in {ir_llvm_value(w, I.ops[1])} |->
        IF handle_is_ptr(I.ops[1].type_entry) THEN Ret(w1, w1.ret)
        ELSE Ret(LLVMBuildStore(w1, w1.ret, I.tmp_ptr), I.tmp_ptr)])

\* g->err_name_table
err_name_table == Named("err_name_table", 0)

\* ir_render_err_name without its test of the number of declared errors
ir_render_err_name_always_indexes(w, gg, sc, I) ==
    On([w0 \in {c_assert(w, gg.generate_error_name_table, "no error name table")} |->
    On([w1 \in {ir_llvm_value(w0, I.ops[1])} |->
        Emit(w1, "inboundsgep", "",
             <<err_name_table, LLVMConstNull(entry_usize), w1.ret>>, <<>>)])])

ir_render_err_name(w, gg, sc, I) ==
    On([w0 \in {c_assert(w, gg.generate_error_name_table, "no error name table")} |->
    IF w0.aborted THEN w0
    ELSE IF gg.error_decls_length = 1
    THEN Ret(Emit(w0, "unreachable", "", <<>>, <<>>), NullRef)
    ELSE
    On([w1 \in {ir_llvm_value(w0, I.ops[1])} |->
    On([err_val \in {w1.ret} |->
    On([err_type \in {I.ops[1].type_entry} |->
    On([w2 \in {IF ir_want_debug_safety(gg, sc)
                THEN add_bounds_check(w1, err_val, "ne", LLVMConstNull(err_type), "ult",
                                      LLVMConstInt(IntRefBits(err_type), gg.error_decls_length))
                ELSE w1} |->
        Emit(w2, "inboundsgep", "", <<err_name_table, LLVMConstNull(entry_usize), err_val>>, <<>>)])])])])])

UnreachableIds ==
    {"Invalid", "Const", "TypeOf", "ToPtrType", "PtrTypeChild", "FieldPtr", "SetFnTest",
     "SetFnVisible", "SetDebugSafety", "ArrayType", "SliceType", "CompileVar", "SizeOf",
     "SwitchTarget", "StaticEval", "Import", "ContainerInitFields", "MinValue", "MaxValue",
     "CompileErr", "ArrayLen"}

TodoIds == {"SwitchVar", "ContainerInitList", "StructInit", "EnumTag"}

ir_render_instruction_body(w, gg, sc, I) ==
    CASE I.id \in UnreachableIds -> Abort(w, "zig_unreachable")
      [] I.id = "Return"         -> ir_render_return(w, gg, sc, I)
      [] I.id = "DeclVar"        -> ir_render_decl_var(w, gg, sc, I)
      [] I.id = "BinOp"          -> ir_render_bin_op(w, gg, sc, I)
      [] I.id = "Cast"           -> ir_render_cast(w, gg, sc, I)
      [] I.id = "Unreachable"    -> ir_render_unreachable(w, gg, sc, I)
      [] I.id = "CondBr"         -> ir_render_cond_br(w, gg, sc, I)
      [] I.id = "Br"             -> ir_render_br(w, gg, sc, I)
      [] I.id = "UnOp"           -> ir_render_un_op(w, gg, sc, I)
      [] I.id = "LoadPtr"        -> ir_render_load_ptr(w, gg, sc, I)
      [] I.id = "StorePtr"       -> ir_render_store_ptr(w, gg, sc, I)
      [] I.id = "VarPtr"         -> ir_render_var_ptr(w, gg, sc, I)
      [] I.id = "ElemPtr"        -> ir_render_elem_ptr(w, gg, sc, I)
      [] I.id = "Call"           -> ir_render_call(w, gg, sc, I)
      [] I.id = "StructFieldPtr" -> ir_render_struct_field_ptr(w, gg, sc, I)
      [] I.id = "EnumFieldPtr"   -> ir_render_enum_field_ptr(w, gg, sc, I)
      [] I.id = "Asm"            -> ir_render_asm(w, gg, sc, I)
      [] I.id = "TestNull"       -> ir_render_test_null(w, gg, sc, I)
      [] I.id = "UnwrapMaybe"    -> ir_render_unwrap_maybe(w, gg, sc, I)
      [] I.id = "Clz"            -> ir_render_clz(w, gg, sc, I)
      [] I.id = "Ctz"            -> ir_render_ctz(w, gg, sc, I)
      [] I.id = "SwitchBr"       -> ir_render_switch_br(w, gg, sc, I)
      [] I.id = "Phi"            -> ir_render_phi(w, gg, sc, I)
      [] I.id = "Ref"            -> ir_render_ref(w, gg, sc, I)
      [] I.id = "ErrName"        -> ir_render_err_name(w, gg, sc, I)
      [] I.id \in TodoIds        -> Abort(w, "zig_panic: TODO render more IR instructions to LLVM")
      [] OTHER                   -> Abort(w, "zig_unreachable")

Call(f, w, gg, sc, x) ==
    IF f = "ir_llvm_value" THEN ir_llvm_value_body(w, x)
    ELSE ir_render_instruction_body(w, gg, sc, x)

ir_render_instruction(w, gg, sc, I) == Call("ir_render_instruction", w, gg, sc, I)

\* ir_render, the body of the loop over the instructions of a block; I.side_effects
\* is ir_has_side_effects(instruction)
RenderStep(w, gg, sc, I) ==
    IF I.ref_count = 0 /\ ~I.side_effects THEN w
    ELSE On([w1 \in {ir_render_instruction(w, gg, sc, I)} |->
             IF w1.aborted THEN w1 ELSE [w1 EXCEPT !.llvm_value[I.iid] = w1.ret]])

(***************************************************************************)
(* Lowering one instruction.  The function being generated has three IR    *)
(* blocks; build_all_basic_blocks has made their backend blocks, the first *)
(* two have been rendered and the builder is in the third.  The operands   *)
(* are runtime instructions rendered earlier (their values are recorded)   *)
(* or instructions with a static value.                                    *)
(***************************************************************************)
tmp_ptr == Named("alloca", 0)
Var(t, rc) ==
    [type |-> t, ref_count |-> rc,
     value_ref |-> IF type_has_bits(t) THEN Named("alloca", 1) ELSE NullRef]
Fn(return_type, is_extern, is_var_args) ==
    [return_type |-> return_type, is_extern |-> is_extern, is_var_args |-> is_var_args]

R1(t) == RtOp(1, t)
R2(t) == RtOp(2, t)

BinOpInstrs ==
    {Ir("BinOp", op, t, <<R1(t), R2(t)>>) :
        op \in {"Add", "AddWrap", "Sub", "SubWrap", "Mult", "MultWrap", "Div", "Mod"},
        t \in {"u8", "i32", "f32"}}
    \cup {[Ir("BinOp", op, "u8", <<R1("u8"), R2("u8")>>) EXCEPT !.safety_check_on = FALSE] :
            op \in {"Add", "Div"}}
    \cup {[Ir("BinOp", op, "i32", <<R1("i32"), R2("i32")>>) EXCEPT !.safety_check_on = FALSE] :
            op \in {"Sub", "Mult", "MultWrap"}}
    \cup {Ir("BinOp", op, t, <<R1(t), R2(t)>>) : op \in {"Add", "Sub"}, t \in {"i16", "u64"}}
    \cup {Ir("BinOp", op, t, <<R1(t), R2(t)>>) :
            op \in {"BitShiftLeft", "BitShiftLeftWrap", "BitShiftRight"}, t \in {"u8", "i8", "i32"}}
    \cup {Ir("BinOp", op, "bool", <<R1(t), R2(t)>>) :
            op \in {"CmpEq", "CmpLessThan"},
            t \in {"u8", "i32", "f32", "bool", "*u8", "error", "Enum0"}}
    \cup {Ir("BinOp", op, "bool", <<R1("bool"), R2("bool")>>) : op \in {"BoolOr", "BoolAnd"}}
    \cup {Ir("BinOp", op, "u8", <<R1("u8"), R2("u8")>>) : op \in {"BinOr", "BinXor", "BinAnd"}}
    \cup {Ir("BinOp", "Add", "u8", <<StaticOperand(1), StaticOperand(20)>>),
          Ir("BinOp", "CmpEq", "bool", <<StaticOperand(7), R2("*u8")>>)}

\* <<cast_op, actual type, wanted type>>
Casts ==
    {<<"Noop", "u8", "u8">>, <<"Noop", "void", "void">>,
     <<"WidenOrShorten", "i32", "u8">>, <<"WidenOrShorten", "i32", "u32">>,
     <<"WidenOrShorten", "u8", "u32">>, <<"WidenOrShorten", "i8", "i32">>,
     <<"WidenOrShorten", "u32", "u16">>, <<"WidenOrShorten", "f64", "f32">>,
     <<"WidenOrShorten", "i8", "u32">>,
     <<"WidenOrShorten", "i16", "i8">>, <<"WidenOrShorten", "u16", "u8">>,
     <<"WidenOrShorten", "i16", "u8">>, <<"WidenOrShorten", "u16", "i8">>,
     <<"WidenOrShorten", "f32", "f64">>, <<"WidenOrShorten", "MyInt", "u8">>,
     <<"ErrToInt", "%void", "u16">>, <<"ErrToInt", "%void", "u8">>, <<"ErrToInt", "%u8", "u16">>,
     <<"MaybeWrap", "u8", "?u8">>, <<"MaybeWrap", "*u8", "?*u8">>,
     <<"ErrorWrap", "u8", "%u8">>,
     <<"PureErrorWrap", "error", "%void">>, <<"PureErrorWrap", "error", "%u8">>,
     <<"PtrToInt", "*u8", "u64">>, <<"IntToPtr", "u64", "*u8">>,
     <<"PointerReinterpret", "*u8", "*u32">>,
     <<"ToUnknownSizeArray", "[2]u8", "[]u8">>,
     <<"ResizeSlice", "[]u8", "[]u32">>, <<"ResizeSlice", "[]u32", "[]u8">>,
     <<"BytesToSlice", "[2]u8", "[]u8">>,
     <<"IntToFloat", "i32", "f32">>, <<"FloatToInt", "f32", "i32">>,
     <<"BoolToInt", "bool", "u8">>,
     <<"IntToEnum", "u8", "Enum0">>, <<"EnumToInt", "Enum0", "u32">>}

CastInstrs ==
    {[Ir("Cast", c[1], c[3], <<R1(c[2])>>) EXCEPT
        !.tmp_ptr = IF handle_is_ptr(c[3]) THEN tmp_ptr ELSE NullRef] : c \in Casts}
    \cup {Ir("Cast", "WidenOrShorten", "u32", <<StaticOperand(1)>>)}

UnOpInstrs ==
    {Ir("UnOp", op, t, <<R1(t)>>) : op \in {"Negation", "NegationWrap"}, t \in {"u8", "i32", "f32"}}
    \cup {Ir("UnOp", "BoolNot", "bool", <<R1("bool")>>),
          Ir("UnOp", "BinNot", "u8", <<R1("u8")>>),
          Ir("UnOp", "AddressOf", "*u8", <<R1("u8")>>),
          Ir("UnOp", "Dereference", "u8", <<R1("*u8")>>),
          Ir("UnOp", "Dereference", "S", <<R1("*S")>>),
          Ir("UnOp", "Dereference", "void", <<R1("*void")>>),
          Ir("UnOp", "UnwrapError", "u8", <<R1("%u8")>>),
          Ir("UnOp", "UnwrapError", "void", <<R1("%void")>>),
          Ir("UnOp", "UnwrapMaybe", "u8", <<R1("?u8")>>),
          Ir("UnOp", "UnwrapMaybe", "*u8", <<R1("?*u8")>>)}

SideEffect(I) == [I EXCEPT !.side_effects = TRUE]

MemoryInstrs ==
    {SideEffect([Ir("DeclVar", "", "void", <<init>>) EXCEPT !.var = Var(init.type_entry, rc)]) :
        init \in {R1("u8"), R1("S"), R1("void"), StaticOperand(1), StaticOperand(25),
                  StaticOperand(26)},
        rc \in {0, 1}}
    \cup {Ir("LoadPtr", "", Ty(p.type_entry).child_type, <<p>>) :
            p \in {R1("*u8"), R1("*S"), R1("*void"), StaticOperand(7)}}
    \cup {SideEffect(Ir("StorePtr", "", "void", <<R1(pv[1]), pv[2]>>)) :
            pv \in {<<"*u8", R2("u8")>>, <<"*S", R2("S")>>, <<"*void", R2("void")>>,
                    <<"*u8", StaticOperand(1)>>, <<"**u8", StaticOperand(7)>>}}
    \cup {[Ir("VarPtr", "", pt[1], <<>>) EXCEPT !.var = Var(pt[2], 1)] :
            pt \in {<<"*u8", "u8">>, <<"*void", "void">>}}
    \cup {[Ir("ElemPtr", "", pt[2], <<R1(pt[1]), R2("u64")>>) EXCEPT !.safety_check_on = s] :
            pt \in {<<"*[4]i32", "*u32">>, <<"*[]u8", "*u8">>, <<"**u8", "*u8">>,
                    <<"*[0]u8", "*void">>},
            s \in BOOLEAN}
    \cup {[Ir("StructFieldPtr", "", pt[1], <<R1("*S")>>) EXCEPT !.field = pt[2]] :
            pt \in {<<"*u8", SF("u8", 0)>>, <<"*void", SF("void", SizeMax)>>}}
    \cup {[Ir("EnumFieldPtr", "", pt[1], <<R1("*EnumP")>>) EXCEPT !.field = pt[2]] :
            pt \in {<<"*u8", SF("u8", 0)>>, <<"*void", SF("void", SizeMax)>>}}
    \cup {[Ir("Ref", "", pt[1], <<pt[2]>>) EXCEPT !.tmp_ptr = tmp_ptr] :
            pt \in {<<"*u8", R1("u8")>>, <<"*S", R1("S")>>, <<"*u8", StaticOperand(1)>>}}

CallInstrs ==
    {SideEffect([Ir("Call", "fn_entry", rt, args) EXCEPT
        !.fn = Fn(rt, FALSE, va),
        !.tmp_ptr = IF type_has_bits(rt) /\ handle_is_ptr(rt) THEN tmp_ptr ELSE NullRef]) :
        rt \in {"u8", "S", "void", "unreachable"},
        args \in {<<>>, <<R1("u8"), R2("void")>>, <<StaticOperand(7)>>},
        va \in BOOLEAN}
    \cup {SideEffect([Ir("Call", "fn_ref", "u8", <<RtOp(3, "fn"), R1("u8")>>) EXCEPT
                        !.fn = Fn("u8", FALSE, FALSE)])}
    \cup {SideEffect([Ir("Call", "fn_entry", rt, args) EXCEPT
            !.fn = Fn(rt, TRUE, FALSE),
            !.tmp_ptr = IF type_has_bits(rt) /\ handle_is_ptr(rt) THEN tmp_ptr ELSE NullRef]) :
            rt \in {"u8", "S"}, args \in {<<>>, <<R1("u8"), R2("void")>>}}
    \cup {SideEffect([Ir("Asm", "", "void", <<R1("u8")>>) EXCEPT !.return_count = 0]),
          SideEffect([Ir("Asm", "", "u8", <<R1("u8")>>) EXCEPT !.return_count = 1])}
    \cup {SideEffect([Ir("Return", "", "unreachable", <<R1(rt)>>) EXCEPT !.fn = Fn(rt, ext, FALSE)]) :
            rt \in {"u8", "S", "void"}, ext \in BOOLEAN}

ControlInstrs ==
    {SideEffect(Ir("Unreachable", "", "unreachable", <<>>)),
     SideEffect([Ir("Br", "", "unreachable", <<>>) EXCEPT !.bbs = <<1>>]),
     SideEffect([Ir("CondBr", "", "unreachable", <<R1("bool")>>) EXCEPT !.bbs = <<1, 2>>]),
     SideEffect([Ir("SwitchBr", "", "unreachable",
                    <<R1("u8"), StaticOperand(1), StaticOperand(20)>>) EXCEPT !.bbs = <<1, 2, 1>>]),
     [Ir("Phi", "", "u8", <<R1("u8"), R2("u8")>>) EXCEPT !.bbs = <<1, 2>>],
     [Ir("Phi", "", "void", <<R1("void"), R2("void")>>) EXCEPT !.bbs = <<1, 2>>],
     [Ir("Phi", "", "*u8", <<StaticOperand(7), R2("*u8")>>) EXCEPT !.bbs = <<1, 2>>]}

MaybeInstrs ==
    {Ir("TestNull", "", "bool", <<R1(t)>>) : t \in {"*?u8", "*?*u8"}}
    \cup {[Ir("UnwrapMaybe", "", pt[2], <<R1(pt[1])>>) EXCEPT !.safety_check_on = s] :
            pt \in {<<"*?u8", "*u8">>, <<"*?*u8", "**u8">>}, s \in BOOLEAN}
    \cup {Ir(id, "", t, <<R1(t)>>) : id \in {"Clz", "Ctz"}, t \in {"u8", "i32"}}
    \cup {Ir("ErrName", "", "[]u8", <<R1("error")>>)}

\* instructions with a static value: analysis left them in the block with no reader,
\* or they are read as operands after the walker has passed them
StaticInstrs ==
    {[Ir("Const", "", Const(c).type, <<>>) EXCEPT
        !.special = Const(c).special, !.cv = c, !.ref_count = 0] : c \in {1, 7, 18, 21, 25}}

Instructions ==
    BinOpInstrs \cup CastInstrs \cup UnOpInstrs \cup MemoryInstrs \cup CallInstrs
    \cup ControlInstrs \cup MaybeInstrs \cup StaticInstrs

\* an undefined pointer read as an operand
UndefOperandInstrs == {Ir("BinOp", "CmpEq", "bool", <<StaticOperand(34), R2("*u8")>>)}

\* the scope chains of an instruction: scopes inside the function body, the
\* function definition, the enclosing container declarations
FlagSettings == {<<FALSE, FALSE>>, <<TRUE, FALSE>>, <<TRUE, TRUE>>}
InnerScopes ==
    {Sc("Block", f[1], f[2]) : f \in FlagSettings} \cup {Sc("Loop", FALSE, FALSE)}
DeclsScopes == {Sc("Decls", f[1], f[2]) : f \in FlagSettings}
SeqsUpTo(S, lo, hi) == UNION {[1..k -> S] : k \in lo..hi}
ScopeChains ==
    UNION {{inner \o <<Sc("FnDef", FALSE, FALSE)>> \o decls :
               inner \in SeqsUpTo(InnerScopes, 0, MaxScopes - n),
               decls \in [1..n -> DeclsScopes]} : n \in 1..MaxScopes}

BuildModes ==
    [is_release_build : BOOLEAN, is_test_build : BOOLEAN,
     generate_error_name_table : {TRUE}, error_decls_length : {1, 3}]

\* the state of the function when the third block is being rendered
InstrW ==
    On([w1 \in {LLVMAppendBasicBlock(LLVMAppendBasicBlock(LLVMAppendBasicBlock(
                    EmptyW, "Entry"), "Then"), "Else")} |->
    On([w2 \in {[w1 EXCEPT
                   !.irb = << [llvm_block |-> 1, llvm_exit_block |-> 1],
                              [llvm_block |-> 2, llvm_exit_block |-> 2],
                              [llvm_block |-> 3, llvm_exit_block |-> NoBlock] >>,
                   !.llvm_value = [i \in IrIds |->
                                      IF i > NumConsts /\ i < LoweredIid
                                      THEN Named("rt", i - NumConsts) ELSE NullRef]]} |->
        LLVMPositionBuilderAtEnd(w2, 3)])])

InitInstr ==
    /\ g \in BuildModes
    /\ scope \in ScopeChains
    /\ W = InstrW
    /\ ir = NoIr
    /\ pc = "idle"
    /\ want = FALSE
    /\ nreq = 0
    /\ NoWalk
    /\ NoProtos

\* the instructions that store through their tmp_ptr or pass it to the callee
NeedsTmpPtr(I) ==
    \/ I.id = "Ref" /\ ~handle_is_ptr(I.ops[1].type_entry)
    \/ I.id = "Call" /\ type_has_bits(I.fn.return_type) /\ handle_is_ptr(I.fn.return_type)
    \/ I.id = "Cast" /\ handle_is_ptr(I.type_entry) /\ I.op_id # "Noop"

\* such instructions when the alloca list of the function missed them
MissingTmpPtrInstrs ==
    {[I EXCEPT !.tmp_ptr = NullRef] : I \in {J \in Instructions : NeedsTmpPtr(J)}}

\* a renderer asks whether the instruction wants debug safety
AskSafety ==
    /\ pc = "idle"
    /\ want' = ir_want_debug_safety(g, scope)
    /\ pc' = "asked"
    /\ UNCHANGED <<g, scope, W, ir, nreq, walker_vars, proto_vars>>

\* the block walker reaches the instruction I
Lower(I) ==
    /\ pc = "idle"
    /\ W' = RenderStep(W, g, scope, I)
    /\ ir' = I
    /\ pc' = "done"
    /\ UNCHANGED <<g, scope, want, nreq, walker_vars, proto_vars>>

\* a later instruction reads the lowered instruction as an operand
ReadResult ==
    /\ pc = "done"
    /\ ~W.aborted
    /\ ir.ref_count > 0
    /\ nreq < MaxRequests
    /\ W' = ir_llvm_value(W, ir)
    /\ nreq' = nreq + 1
    /\ UNCHANGED <<g, scope, ir, pc, want, walker_vars, proto_vars>>

\* the block walker reaches an instruction whose tmp_ptr was not allocated
LowerWithoutTmpPtr(I, backend_asserts) ==
    /\ pc = "idle"
    /\ W' = RenderStep([W EXCEPT !.backend_asserts = backend_asserts], g, scope, I)
    /\ ir' = I
    /\ pc' = "done"
    /\ UNCHANGED <<g, scope, want, nreq, walker_vars, proto_vars>>

\* the bounds a caller of add_bounds_check passes: nullptr for a missing bound
BoundsChecks ==
    [id : {"add_bounds_check"}, target_val : {Named("rt", 1)},
     lower_pred : {"ne", "sge"}, lower_value : {NullRef, ConstNull(16)},
     upper_pred : {"ult"}, upper_value : {NullRef, ConstInt(16, 3)}]

\* a renderer calls add_bounds_check
AddBoundsCheck(c) ==
    /\ pc = "idle"
    /\ W' = add_bounds_check(W, c.target_val, c.lower_pred, c.lower_value,
                             c.upper_pred, c.upper_value)
    /\ ir' = c
    /\ pc' = "checked"
    /\ UNCHANGED <<g, scope, want, nreq, walker_vars, proto_vars>>

\* the divisions a caller of gen_div asks for
Divisions ==
    [id : {"gen_div"}, type_entry : {"u8", "i8", "f32"}, exact : BOOLEAN,
     want_debug_safety : BOOLEAN, val1 : {Named("rt", 1)}, val2 : {Named("rt", 2)}]

\* a renderer calls gen_div
GenDiv(d) ==
    /\ pc = "idle"
    /\ W' = gen_div(W, d.want_debug_safety, d.val1, d.val2, d.type_entry, d.exact)
    /\ ir' = d
    /\ pc' = "divided"
    /\ UNCHANGED <<g, scope, want, nreq, walker_vars, proto_vars>>

NextInstr ==
    \/ AskSafety
    \/ \E c \in BoundsChecks : AddBoundsCheck(c)
    \/ \E I \in Instructions \cup UndefOperandInstrs : Lower(I)
    \/ \E I \in MissingTmpPtrInstrs, a \in BOOLEAN : LowerWithoutTmpPtr(I, a)
    \/ ReadResult

SpecInstr == InitInstr /\ [][NextInstr]_vars

(***************************************************************************)
(* Lowering a division or a shift: the instructions whose emitted code is  *)
(* run on operand values.                                                  *)
(***************************************************************************)
ArithInstrs ==
    {I \in BinOpInstrs :
        I.op_id \in {"Div", "BitShiftLeft", "BitShiftLeftWrap", "BitShiftRight"}}

NextArith ==
    \/ \E d \in Divisions : GenDiv(d)
    \/ \E I \in ArithInstrs : Lower(I)
    \/ ReadResult

SpecArith == InitInstr /\ [][NextArith]_vars

(***************************************************************************)
(* Properties of the lowering of one instruction.                          *)
(***************************************************************************)
AllInsns(w) ==
    UNION {{w.blocks[b].insns[j] : j \in 1..Len(w.blocks[b].insns)} : b \in 1..Len(w.blocks)}

FailNames ==
    {"BoundsCheckFail", "SignCastFail", "CastShortenFail", "OverflowFail", "DivZeroFail",
     "DivExactFail", "SliceWidenFail", "UnwrapErrError", "UnwrapMaybeNull", "UnwrapMaybeFail"}

FailBlocks(w) == {b \in 1..Len(w.blocks) : w.blocks[b].name \in FailNames}
TrapCalls(w) == {i \in AllInsns(w) : i.op = "call" /\ i.x = trap_fn_val}
CheckBranches(w) ==
    {i \in AllInsns(w) : i.op = "condbr" /\ \E k \in 1..Len(i.bbs) : i.bbs[k] \in FailBlocks(w)}

\* no bounds check, no overflow check, no trap
NoChecks(w) == FailBlocks(w) = {} /\ TrapCalls(w) = {} /\ w.int_overflow_fns = {}

\* the index in the chain of the nearest Block or Decls scope with a safety flag, or 0
NearestFlagged(chain) ==
    LET F == {i \in 1..Len(chain) :
                chain[i].id \in {"Block", "Decls"} /\ chain[i].safety_set_node}
    IN  IF F = {} THEN 0 ELSE CHOOSE i \in F : \A j \in F : i <= j

ExplicitOff(chain) == NearestFlagged(chain) # 0 /\ chain[NearestFlagged(chain)].safety_off

\* C2 as stated: an instruction whose nearest flagged enclosing scope has safety off
\* is lowered without any bounds check, overflow check or trap, for every opcode and
\* every combination of build flags
C2_SafetyOffNoChecks ==
    (pc = "done" /\ ExplicitOff(scope)) => NoChecks(W)

\* C2 amended: the same for every instruction except an Unreachable in a test build,
\* which is lowered as the trap call followed by unreachable whatever the scopes say
C2_SafetyOffNoChecksButTestUnreachable ==
    (pc = "done" /\ ExplicitOff(scope)) =>
        IF ir.id = "Unreachable" /\ g.is_test_build
        THEN W.blocks[W.cur].insns = gen_debug_safety_crash(InstrW).blocks[W.cur].insns
        ELSE NoChecks(W)

C2_Witness ==
    /\ pc = "done" /\ ~W.aborted
    /\ ExplicitOff(scope) /\ ~g.is_release_build
    /\ \E i \in 1..Len(scope) : scope[i].safety_set_node /\ ~scope[i].safety_off
    /\ ir.id = "BinOp" /\ ir.op_id = "Add" /\ ir.type_entry = "u8" /\ ir.safety_check_on
    /\ \E i \in AllInsns(W) : i.op = "add"

\* C3: the predicate returns the setting of the nearest flagged enclosing Block or
\* Decls scope whatever the build mode, and only without one falls back to the
\* default, on unless is_release_build
C3_NearestFlagWins ==
    pc = "asked" =>
        want = IF NearestFlagged(scope) # 0 THEN ~scope[NearestFlagged(scope)].safety_off
               ELSE ~g.is_release_build

IsCrashBlock(w, b) ==
    LET insns == w.blocks[b].insns IN
    /\ Len(insns) = 2
    /\ insns[1].op = "call" /\ insns[1].x = trap_fn_val /\ insns[1].bbs = <<>>
    /\ insns[2].op = "unreachable" /\ insns[2].bbs = <<>>

OkTarget(w, br) == CHOOSE b \in {br.bbs[k] : k \in 1..Len(br.bbs)} : b \notin FailBlocks(w)

\* C4: every safety check branches on failure to a block that holds exactly the trap
\* call and an unreachable, that block has no successor, and after the check the
\* builder is in the ok block of the check
C4_FailBlockTraps ==
    (pc = "done" /\ ~W.aborted) =>
        /\ \A b \in FailBlocks(W) :
              /\ IsCrashBlock(W, b)
              /\ \E br \in CheckBranches(W) : \E k \in 1..Len(br.bbs) : br.bbs[k] = b
        /\ \A br \in CheckBranches(W) :
              /\ Len(br.bbs) = 2
              /\ \E k \in 1..2 : br.bbs[k] \notin FailBlocks(W)
        /\ CheckBranches(W) # {} =>
              LET last == CHOOSE br \in CheckBranches(W) : \A o \in CheckBranches(W) : o.id <= br.id
              IN  /\ W.cur = OkTarget(W, last)
                  /\ W.cur \notin FailBlocks(W)
                  /\ \A i \in AllInsns(W) : i.id > last.id =>
                        \/ \E b \in FailBlocks(W) : \E j \in 1..2 : W.blocks[b].insns[j] = i
                        \/ \E j \in 1..Len(W.blocks[W.cur].insns) : W.blocks[W.cur].insns[j] = i

C4_Witness ==
    /\ pc = "done" /\ ~W.aborted
    /\ ir.id = "Cast" /\ ir.op_id = "WidenOrShorten"
    /\ \E a, b \in FailBlocks(W) :
          W.blocks[a].name = "SignCastFail" /\ W.blocks[b].name = "CastShortenFail"
    /\ W.blocks[W.cur].name = "CastShortenOk"
    /\ nreq > 0

\* the backend instructions that access memory
MemInsns(w) ==
    {i \in AllInsns(w) : i.op \in {"load", "store"} \/ (i.op = "call" /\ i.x = memcpy_fn_val)}

StaticOps(I) == {I.ops[i] : i \in {j \in 1..Len(I.ops) : I.ops[j].special # "Runtime"}}

\* the types whose storage the instruction itself reads or writes
AccessedTypes(I) ==
    CASE I.id \in {"DeclVar", "VarPtr"}  -> {I.var.type}
      [] I.id = "StorePtr" -> {Ty(I.ops[1].type_entry).child_type}
      [] I.id = "LoadPtr"  -> {I.type_entry}
      [] I.id = "UnOp" /\ I.op_id = "Dereference" -> {I.type_entry}
      [] I.id \in {"Return", "Call"} -> {I.fn.return_type}
      [] I.id \in {"StructFieldPtr", "EnumFieldPtr"} -> {I.field.type_entry}
      [] OTHER -> {}

\* C7: an instruction whose result type is zero-sized records no backend value, read
\* as an operand it yields no value, and no load, store or memcpy of a zero-sized
\* type is emitted or attempted
C7_ZeroSizedLeavesNoValue ==
    pc = "done" =>
        /\ ~type_has_bits(ir.type_entry) =>
              /\ W.llvm_value[LoweredIid] = NullRef
              /\ nreq > 0 => W.ret = NullRef
        /\ (StaticOps(ir) = {} /\ \E t \in AccessedTypes(ir) : ~type_has_bits(t)) =>
              /\ MemInsns(W) = {}
              /\ W.why # "LLVMBuildLoad(nullptr)"

\* C8: for an instruction with a static value nothing is emitted when the block
\* walker reaches it, and no load is emitted or attempted from its constant when it
\* is read as an operand
C8_StaticValueEmitsNothing ==
    pc = "done" =>
        /\ ir.special # "Runtime" => W.blocks = InstrW.blocks
        /\ \A o \in StaticOps(ir) :
              /\ W.why # "LLVMBuildLoad(nullptr)"
              /\ ~\E i \in AllInsns(W) :
                    /\ i.op = "load"
                    /\ W.consts[o.cv].llvm_global # NullRef
                    /\ i.args = <<W.consts[o.cv].llvm_global>>

(***************************************************************************)
(* The function walker: build_all_basic_blocks, then ir_render over the    *)
(* blocks of the function in list order.  A function is its list of IR     *)
(* basic blocks [name_hint, ref_count, instruction_list]; the k-th         *)
(* instruction of the function has the id FnIid(k).                        *)
(***************************************************************************)
FnIid(k) == NumConsts + MaxRuntimeOps + k
At(k, I) == [I EXCEPT !.iid = FnIid(k)]
AsOperand(I) == Operand(I.iid, I.type_entry, I.special, I.cv)
BB(name_hint, instruction_list) ==
    [name_hint |-> name_hint, ref_count |-> 1, instruction_list |-> instruction_list]

\* the instructions the functions below are made of
LocalX == Var("u8", 1)
X_ptr == At(1, [Ir("VarPtr", "", "*u8", <<>>) EXCEPT !.var = LocalX])
X_val == At(2, Ir("LoadPtr", "", "u8", <<AsOperand(X_ptr)>>))
X_cmp == At(3, Ir("BinOp", "CmpLessThan", "bool", <<AsOperand(X_val), StaticOperand(1)>>))
X_add == At(5, Ir("BinOp", "Add", "u8", <<AsOperand(X_val), StaticOperand(20)>>))
X_div == At(7, Ir("BinOp", "Div", "u8", <<AsOperand(X_val), StaticOperand(20)>>))
BrTo(k, b) == At(k, SideEffect([Ir("Br", "", "unreachable", <<>>) EXCEPT !.bbs = <<b>>]))
CondBrTo(k, c, b1, b2) ==
    At(k, SideEffect([Ir("CondBr", "", "unreachable", <<AsOperand(c)>>) EXCEPT !.bbs = <<b1, b2>>]))
PhiOf(k, v1, b1, v2, b2) == At(k, [Ir("Phi", "", "u8", <<v1, v2>>) EXCEPT !.bbs = <<b1, b2>>])
ReturnOf(k, v) ==
    At(k, SideEffect([Ir("Return", "", "unreachable", <<v>>) EXCEPT !.fn = Fn("u8", FALSE, FALSE)]))

\* if (x < 200) x + 7 else x / 7: the phi of the merge block comes after its
\* incoming blocks
Merge_phi == PhiOf(9, AsOperand(X_add), 2, AsOperand(X_div), 3)
FnDiamond ==
    << BB("Entry", <<X_ptr, X_val, X_cmp, CondBrTo(4, X_cmp, 2, 3)>>),
       BB("Then", <<X_add, BrTo(6, 4)>>),
       BB("Else", <<X_div, BrTo(8, 4)>>),
       BB("Merge", <<Merge_phi, ReturnOf(10, AsOperand(Merge_phi))>>) >>

\* a loop whose header has a phi with an incoming edge from the loop body, a
\* block that comes later in the list; the incoming values are constants
Loop_phi == PhiOf(4, StaticOperand(1), 1, StaticOperand(20), 3)
Loop_add == At(6, Ir("BinOp", "Add", "u8", <<AsOperand(Loop_phi), AsOperand(X_val)>>))
FnLoop ==
    << BB("Entry", <<X_ptr, X_val, X_cmp, BrTo(9, 2)>>),
       BB("Loop", <<Loop_phi, CondBrTo(5, X_cmp, 3, 4)>>),
       BB("Body", <<Loop_add, BrTo(7, 2)>>),
       BB("Exit", <<ReturnOf(8, AsOperand(Loop_phi))>>) >>

\* the same loop with the value computed in the body carried round the back edge
Carried_phi == PhiOf(4, StaticOperand(1), 1, AsOperand(Loop_add), 3)
FnLoopCarried ==
    << BB("Entry", <<X_ptr, X_val, X_cmp, BrTo(9, 2)>>),
       BB("Loop", <<Carried_phi, CondBrTo(5, X_cmp, 3, 4)>>),
       BB("Body", <<Loop_add, BrTo(7, 2)>>),
       BB("Exit", <<ReturnOf(8, AsOperand(Carried_phi))>>) >>

\* a function without a phi
FnStraight ==
    << BB("Entry", <<X_ptr, X_val, X_add, ReturnOf(4, AsOperand(X_add))>>) >>

\* a function whose block list holds a block that nothing branches to
FnDeadBlock ==
    << BB("Entry", <<X_ptr, X_val, BrTo(3, 3)>>),
       [BB("Dead", <<X_add, BrTo(6, 3)>>) EXCEPT !.ref_count = 0],
       BB("Exit", <<ReturnOf(4, AsOperand(X_val))>>) >>

\* a function that ends with a call of a function that does not return
NoReturn_call ==
    At(3, SideEffect([Ir("Call", "fn_entry", "unreachable", <<AsOperand(X_val)>>) EXCEPT
                        !.fn = Fn("unreachable", FALSE, FALSE)]))
FnNoReturnCall ==
    << BB("Entry", <<X_ptr, X_val, NoReturn_call>>) >>

\* a function that takes the name of an error; the name is the operand of an
\* instruction that nothing uses
LocalE == Var("error", 1)
E_ptr == At(1, [Ir("VarPtr", "", "*error", <<>>) EXCEPT !.var = LocalE])
E_val == At(2, Ir("LoadPtr", "", "error", <<AsOperand(E_ptr)>>))
E_name == At(3, Ir("ErrName", "", "[]u8", <<AsOperand(E_val)>>))
E_ref == At(4, [Ir("Ref", "", "*[]u8", <<AsOperand(E_name)>>) EXCEPT !.ref_count = 0])
FnErrName ==
    << BB("Entry", <<E_ptr, E_val, E_name, E_ref, ReturnOf(5, StaticOperand(1))>>) >>

\* a function that switches on a value after an addition: the addition and the
\* division of the case block are checked under safety
SwitchBrTo(k, v, else_b, case_b) ==
    At(k, SideEffect([Ir("SwitchBr", "", "unreachable",
                         <<AsOperand(v), StaticOperand(1), StaticOperand(20)>>)
                      EXCEPT !.bbs = <<else_b, case_b, else_b>>]))
FnSwitch ==
    << BB("Entry", <<X_ptr, X_val, X_add, SwitchBrTo(4, X_val, 2, 3)>>),
       BB("SwitchElse", <<ReturnOf(6, AsOperand(X_add))>>),
       BB("SwitchProng", <<X_div, ReturnOf(8, AsOperand(X_div))>>) >>

Functions ==
    {FnDiamond, FnLoop, FnLoopCarried, FnStraight, FnDeadBlock, FnNoReturnCall, FnErrName,
     FnSwitch}

RECURSIVE build_all_basic_blocks(_, _, _)
\* the loop of build_all_basic_blocks from block block_i, then the builder is put
\* at the end of the entry block
build_all_basic_blocks(w, fn, i) ==
    IF i > Len(fn) THEN LLVMPositionBuilderAtEnd(w, w.irb[1].llvm_block)
    ELSE On([bb \in {NewBlock(w)} |->
         On([w1 \in {LLVMAppendBasicBlock(w, fn[i].name_hint)} |->
             build_all_basic_blocks(
                 [w1 EXCEPT !.irb = Append(@, [llvm_block |-> bb, llvm_exit_block |-> NoBlock])],
                 fn, i + 1)])])

InitFn ==
    /\ g \in BuildModes
    /\ scope \in ScopeChains
    /\ cur_fn \in Functions
    /\ W = EmptyW
    /\ ir = NoIr
    /\ pc = "build"
    /\ want = FALSE
    /\ nreq = 0
    /\ block_i = 0
    /\ instr_i = 0
    /\ NoProtos

\* do_code_gen: the basic blocks of the function are built before it is rendered
BuildAllBasicBlocks ==
    /\ pc = "build"
    /\ W' = build_all_basic_blocks(c_assert(W, Len(cur_fn) > 0, "function without blocks"),
                                   cur_fn, 1)
    /\ pc' = "block"
    /\ block_i' = 1
    /\ UNCHANGED <<g, scope, ir, want, nreq, cur_fn, instr_i, proto_vars>>

\* ir_render: the head of the loop over the blocks
EnterBlock ==
    /\ pc = "block"
    /\ ~W.aborted
    /\ block_i <= Len(cur_fn)
    /\ W' = LLVMPositionBuilderAtEnd(
                c_assert(c_assert(W, cur_fn[block_i].ref_count > 0, "unreferenced block"),
                         W.irb[block_i].llvm_block # NoBlock, "block without llvm_block"),
                W.irb[block_i].llvm_block)
    /\ instr_i' = 1
    /\ pc' = "instr"
    /\ UNCHANGED <<g, scope, ir, want, nreq, cur_fn, block_i, proto_vars>>

\* ir_render: the body of the loop over the instructions of the block
RenderInstruction ==
    /\ pc = "instr"
    /\ ~W.aborted
    /\ instr_i <= Len(cur_fn[block_i].instruction_list)
    /\ ir' = cur_fn[block_i].instruction_list[instr_i]
    /\ W' = RenderStep(W, g, scope, ir')
    /\ instr_i' = instr_i + 1
    /\ UNCHANGED <<g, scope, pc, want, nreq, cur_fn, block_i, proto_vars>>

\* ir_render: after the last instruction of a block its exit block is recorded
LeaveBlock ==
    /\ pc = "instr"
    /\ ~W.aborted
    /\ instr_i > Len(cur_fn[block_i].instruction_list)
    /\ W' = [W EXCEPT !.irb[block_i].llvm_exit_block = W.cur]
    /\ block_i' = block_i + 1
    /\ pc' = IF block_i = Len(cur_fn) THEN "rendered" ELSE "block"
    /\ UNCHANGED <<g, scope, ir, want, nreq, cur_fn, instr_i, proto_vars>>

NextFn == BuildAllBasicBlocks \/ EnterBlock \/ RenderInstruction \/ LeaveBlock

SpecFn == InitFn /\ [][NextFn]_vars

\* the backend blocks with a terminator that branches to the block b
PredecessorBlocks(w, b) ==
    {k \in 1..Len(w.blocks) :
        \E j \in 1..Len(w.blocks[k].insns) :
            \E t \in 1..Len(w.blocks[k].insns[j].bbs) :
                /\ w.blocks[k].insns[j].op \in {"br", "condbr", "switch"}
                /\ w.blocks[k].insns[j].bbs[t] = b}

\* the phi instructions of the function: <<block, instruction>>
FnPhis ==
    UNION {{<<b, cur_fn[b].instruction_list[j]>> :
               j \in {k \in 1..Len(cur_fn[b].instruction_list) :
                        cur_fn[b].instruction_list[k].id = "Phi"}} :
           b \in 1..Len(cur_fn)}

\* the backend phi lowered from the IR phi I
BackendPhi(w, I) == CHOOSE i \in AllInsns(w) : InstVal(i.id) = w.llvm_value[I.iid]

\* C1: when the function is rendered, each incoming edge of each phi references the
\* exit block of its incoming IR block, blocks later in the list (loop back edges)
\* included, and the incoming edges are the predecessor exit blocks
C1_PhiIncomingExitBlocks ==
    (pc = "rendered" /\ ~W.aborted) =>
        \A p \in FnPhis :
            LET phi == BackendPhi(W, p[2]) IN
            /\ phi.op = "phi"
            /\ phi.bbs = [i \in 1..Len(p[2].bbs) |-> W.irb[p[2].bbs[i]].llvm_exit_block]
            /\ {phi.bbs[i] : i \in 1..Len(phi.bbs)}
                   = PredecessorBlocks(W, W.irb[p[1]].llvm_block)

(***************************************************************************)
(* The function prototypes of do_code_gen.  A prototype is a FnTableEntry  *)
(* [return_type, is_extern, is_test, is_main, params]; params are the      *)
(* types of its source parameters.  A backend function is [params, attrs]: *)
(* the parameter types of its backend function type and the attributes as  *)
(* pairs <<index, name>>, index 0 the return value, index i parameter i.   *)
(***************************************************************************)
NoFnVal == [params |-> <<>>, attrs |-> {}, created |-> FALSE]

\* the type of a hidden struct-return parameter
SretPtr(t) == "sret *" \o t

\* a source parameter: FnTypeParamInfo {type, is_noalias} with the is_byval of
\* its FnGenParamInfo
Param(t, noalias, byval) == [type |-> t, is_noalias |-> noalias, is_byval |-> byval]

\* the source parameters that reach the backend, in order
GenParams(params) == SelectSeq(params, LAMBDA p : type_has_bits(p.type))

\* the backend type of a parameter: an aggregate is passed by pointer
GenParamType(p) == IF handle_is_ptr(p.type) THEN "*" \o p.type ELSE p.type

\* the hidden parameters in front of the source parameters
HiddenParams(fn) ==
    IF type_has_bits(fn.return_type) /\ handle_is_ptr(fn.return_type) /\ ~fn.is_extern
    THEN <<SretPtr(fn.return_type)>> ELSE <<>>

\* fn_type->data.fn.raw_type_ref: the analysis gives a non-extern function that
\* returns an aggregate a leading pointer parameter for the result
raw_type_params(fn) ==
    HiddenParams(fn) \o [i \in 1..Len(GenParams(fn.params)) |-> GenParamType(GenParams(fn.params)[i])]

\* gen_param_info[param_i].gen_index: the backend index of source parameter
\* param_i, SIZE_MAX for a parameter without bits
gen_index(fn, param_i) ==
    IF ~type_has_bits(fn.params[param_i].type) THEN SizeMax
    ELSE Len(HiddenParams(fn)) + Len(GenParams(SubSeq(fn.params, 1, param_i - 1)))

fn_llvm_value(gg, fn, fn_val) ==
    IF fn_val.created THEN fn_val
    ELSE [params |-> raw_type_params(fn),
          attrs |-> (IF fn.return_type = "unreachable" THEN {<<-1, "noreturn">>} ELSE {})
                    \cup (IF ~fn.is_extern THEN {<<-1, "nounwind">>} ELSE {})
                    \cup (IF ~gg.is_release_build
                          THEN {<<-1, "no-frame-pointer-elim">>} ELSE {}),
          created |-> TRUE]

\* a skip test that ignores the kind of build
should_skip_test_fns(gg, fn) == fn.is_test

should_skip_fn_codegen(gg, fn) ==
    IF gg.is_test_build
    THEN IF fn.is_test THEN FALSE
         ELSE IF fn.is_main THEN TRUE
         ELSE FALSE
    ELSE fn.is_test

\* fn_entry->symbol_name of the fn_i-th function of g->fn_protos, as bytes: "f",
\* "ff", ...
symbol_name(fn_i) == [k \in 1..fn_i |-> 102]

\* the backend function of the fn_i-th function of g->fn_protos as a value
FnPtr(fn_i) == V("fn", fn_i, 0, <<>>)

\* gen_test_fn_val: the name of the test function becomes a private string global;
\* the value is the pair of the name slice and the backend function
gen_test_fn_val(w, fn_i) ==
    On([fn_name \in {symbol_name(fn_i)} |->
    On([str_init \in {LLVMConstString(fn_name, TRUE)} |->
    On([a \in {LLVMAddGlobalNamed(w, LLVMTypeOf(str_init), "")} |->
    On([w1 \in {LLVMSetLinkage(LLVMSetInitializer(a, a.ret, str_init), a.ret, "private")} |->
    On([len_val \in {ConstInt(IntRefBits(entry_usize), Len(fn_name))} |->
    On([name_val \in {LLVMConstStruct(<<LLVMConstBitCast(a.ret, "*u8"), len_val>>)} |->
        Ret(w1, LLVMConstStruct(<<name_val, FnPtr(fn_i)>>))])])])])])])

\* the return attributes of a prototype that ignore is_extern
return_attrs_of_any_aggregate(fn) ==
    IF ~type_has_bits(fn.return_type) THEN {}
    ELSE IF Ty(fn.return_type).id = "Pointer" THEN {<<0, "nonnull">>}
    ELSE IF handle_is_ptr(fn.return_type) THEN {<<1, "sret">>, <<1, "nonnull">>}
    ELSE {}

\* do_code_gen: the attributes that depend on the return type
return_attrs(fn) ==
    IF ~type_has_bits(fn.return_type) THEN {}
    ELSE IF Ty(fn.return_type).id = "Pointer" THEN {<<0, "nonnull">>}
    ELSE IF handle_is_ptr(fn.return_type) /\ ~fn.is_extern THEN {<<1, "sret">>, <<1, "nonnull">>}
    ELSE {}

\* do_code_gen: the loop that sets the parameter attributes
param_attrs(fn) ==
    UNION {On([p \in {fn.params[i]} |->
           On([gi \in {gen_index(fn, i)} |->
               IF gi = SizeMax THEN {}
               ELSE (IF p.is_noalias THEN {<<gi + 1, "noalias">>} ELSE {})
                    \cup (IF (Ty(p.type).id = "Pointer" /\ Ty(p.type).is_const) \/ p.is_byval
                          THEN {<<gi + 1, "readonly">>} ELSE {})
                    \cup (IF Ty(p.type).id = "Pointer" THEN {<<gi + 1, "nonnull">>} ELSE {})])])
           : i \in 1..Len(fn.params)}

(***************************************************************************)
(* The error name table.  g->error_decls is indexed by the value of the    *)
(* error: entry 0 (nullptr) stands for Ok.  A name is the sequence of its   *)
(* bytes; error_decls(gg)[i + 1] is the name of the error with value i.    *)
(***************************************************************************)
NoName == <<>>
ErrorDecls == <<NoName, <<79, 117, 116, 79, 102, 77, 101, 109>>, <<69, 111, 102>>, <<88>>>>

error_decls(gg) == SubSeq(ErrorDecls, 1, gg.error_decls_length)

\* generate_error_name_table: the body of the loop, from i to the end of the list
RECURSIVE ErrorNameValues(_, _, _, _)
ErrorNameValues(w, gg, i, values) ==
    IF w.aborted \/ ~(i < Len(error_decls(gg))) THEN Ret(w, values)
    ELSE
    On([name \in {error_decls(gg)[i + 1]} |->
    On([str_init \in {LLVMConstString(name, TRUE)} |->
    On([a \in {LLVMAddGlobalNamed(w, LLVMTypeOf(str_init), "")} |->
    On([w1 \in {LLVMSetLinkage(LLVMSetInitializer(a, a.ret, str_init), a.ret, "private")} |->
        ErrorNameValues(w1, gg, i + 1,
            Append(values,
                   LLVMConstNamedStruct("[]u8",
                       <<LLVMConstBitCast(a.ret, Ty("[]u8").fields[1].type_entry),
                         ConstInt(IntRefBits(entry_usize), Len(name))>>)))])])])])

\* a table whose first entry is the first declared error
generate_error_name_table_from_first_error(w, gg) ==
    IF ~gg.generate_error_name_table \/ Len(error_decls(gg)) = 1 THEN w
    ELSE
    On([vs \in {ErrorNameValues(w, gg, 1, <<>>)} |->
    On([err_name_table_init \in {LLVMConstArray("[]u8", vs.ret)} |->
    On([a \in {LLVMAddGlobalNamed(vs, LLVMTypeOf(err_name_table_init), "err_name_table")} |->
        LLVMSetLinkage(LLVMSetInitializer(a, a.ret, err_name_table_init), a.ret, "private")])])])

generate_error_name_table(w, gg) ==
    IF ~gg.generate_error_name_table \/ Len(error_decls(gg)) = 1 THEN w
    ELSE
    On([w0 \in {c_assert(w, Len(error_decls(gg)) > 0, "no error declarations")} |->
    On([vs \in {ErrorNameValues(w0, gg, 1, <<LLVMGetUndef("[]u8")>>)} |->
    On([err_name_table_init \in {LLVMConstArray("[]u8", vs.ret)} |->
    On([a \in {LLVMAddGlobalNamed(vs, LLVMTypeOf(err_name_table_init), "err_name_table")} |->
        LLVMSetLinkage(LLVMSetInitializer(a, a.ret, err_name_table_init), a.ret, "private")])])])])

ParamLists ==
    {<<Param("*u8", TRUE, FALSE)>>,
     <<Param("void", FALSE, FALSE), Param("S", FALSE, TRUE)>>}

Protos ==
    [return_type : {"void", "u8", "*u8", "S"}, is_extern : BOOLEAN,
     is_test : {FALSE}, is_main : BOOLEAN, params : ParamLists]
    \cup [return_type : {"void"}, is_extern : {FALSE}, is_test : {TRUE}, is_main : {FALSE},
          params : {<<>>}]

InitProto ==
    /\ g \in {m \in BuildModes : m.error_decls_length = 1}
    /\ fn_protos \in SeqsUpTo(Protos, 1, MaxProtos)
    /\ fn_proto_i = 1
    /\ fn_vals = [i \in 1..Len(fn_protos) |-> NoFnVal]
    /\ test_fn_vals = <<>>
    /\ fn_def_i = 0
    /\ fn_defs_gen = <<>>
    /\ W = EmptyW
    /\ pc = "protos"
    /\ scope = <<>>
    /\ ir = NoIr
    /\ want = FALSE
    /\ nreq = 0
    /\ NoWalk

\* do_code_gen: the body of the loop that generates the function prototypes
GenFnProto ==
    /\ pc = "protos"
    /\ fn_proto_i <= Len(fn_protos)
    /\ LET fn == fn_protos[fn_proto_i]
           fn_val == fn_llvm_value(g, fn, fn_vals[fn_proto_i])
       IN  IF should_skip_fn_codegen(g, fn)
           THEN UNCHANGED <<fn_vals, test_fn_vals, W>>
           ELSE /\ fn_vals' = [fn_vals EXCEPT ![fn_proto_i] =
                                 [fn_val EXCEPT !.attrs = @ \cup return_attrs(fn) \cup param_attrs(fn)]]
                /\ IF fn.is_test
                   THEN /\ test_fn_vals' = Append(test_fn_vals, gen_test_fn_val(W, fn_proto_i).ret)
                        /\ W' = gen_test_fn_val(W, fn_proto_i)
                   ELSE UNCHANGED <<test_fn_vals, W>>
    /\ fn_proto_i' = fn_proto_i + 1
    /\ UNCHANGED <<g, scope, ir, pc, want, nreq, walker_vars, fn_protos, fn_def_i, fn_defs_gen>>

NextProto == GenFnProto

SpecProto == InitProto /\ [][NextProto]_vars

ReturnsAggregate(fn) == type_has_bits(fn.return_type) /\ handle_is_ptr(fn.return_type)

CodeGens ==
    [is_release_build : BOOLEAN, is_test_build : BOOLEAN,
     generate_error_name_table : BOOLEAN, error_decls_length : {1, 2, Len(ErrorDecls)}]

FnEntry(return_type, is_extern, is_test, is_main, params) ==
    [return_type |-> return_type, is_extern |-> is_extern, is_test |-> is_test,
     is_main |-> is_main, params |-> params]

FnEntries ==
    {FnEntry("void", FALSE, TRUE, FALSE, <<>>),
     FnEntry("u8", FALSE, FALSE, TRUE, <<>>),
     FnEntry("S", FALSE, FALSE, FALSE, <<Param("*u8", TRUE, FALSE)>>),
     FnEntry("S", TRUE, FALSE, FALSE, <<Param("void", FALSE, FALSE), Param("S", FALSE, TRUE)>>),
     FnEntry("*u8", FALSE, FALSE, FALSE, <<>>)}

InitCodeGen ==
    /\ g \in CodeGens
    /\ fn_protos \in SeqsUpTo(FnEntries, 1, MaxFns)
    /\ fn_proto_i = 1
    /\ fn_vals = [i \in 1..Len(fn_protos) |-> NoFnVal]
    /\ test_fn_vals = <<>>
    /\ fn_def_i = 0
    /\ fn_defs_gen = <<>>
    /\ W = EmptyW
    /\ pc = "error_name_table"
    /\ scope = <<>>
    /\ ir = NoIr
    /\ want = FALSE
    /\ nreq = 0
    /\ NoWalk

\* do_code_gen: the call of generate_error_name_table
GenerateErrorNameTable ==
    /\ pc = "error_name_table"
    /\ W' = generate_error_name_table(W, g)
    /\ pc' = "protos"
    /\ UNCHANGED <<g, scope, ir, want, nreq, walker_vars, proto_vars>>

\* g->test_fn_count: the number of test functions the analysis found
test_fn_count(protos) == Cardinality({i \in 1..Len(protos) : protos[i].is_test})

\* do_code_gen: the array of the test function values and the slice
\* zig_test_fn_list that describes it
gen_test_fn_list(w, vals, count) ==
    On([w0 \in {c_assert(c_assert(w, count > 0, "no test functions"),
                         Len(vals) = count, "next_test_index != test_fn_count")} |->
    IF w0.aborted THEN w0
    ELSE
    On([test_fn_array_init \in {LLVMConstArray("TestFn", SubSeq(vals, 1, count))} |->
    On([a \in {LLVMAddGlobalNamed(w0, LLVMTypeOf(test_fn_array_init), "")} |->
    On([w1 \in {LLVMSetLinkage(LLVMSetInitializer(a, a.ret, test_fn_array_init),
                               a.ret, "internal")} |->
    On([len_val \in {ConstInt(IntRefBits(entry_usize), count)} |->
    On([test_fn_slice_init \in {LLVMConstStruct(<<LLVMConstBitCast(a.ret, "*TestFn"), len_val>>)} |->
    On([b \in {LLVMAddGlobalNamed(w1, "[]TestFn", "zig_test_fn_list")} |->
        LLVMSetLinkage(LLVMSetInitializer(b, b.ret, test_fn_slice_init),
                       b.ret, "external")])])])])])])])

\* do_code_gen: after the prototype loop, the list of test functions; a test build
\* without test functions prints "No tests to run." and exits
GenTestFnList ==
    /\ pc = "protos"
    /\ fn_proto_i > Len(fn_protos)
    /\ IF g.is_test_build
       THEN IF test_fn_count(fn_protos) = 0
            THEN /\ pc' = "exit"
                 /\ UNCHANGED <<W, fn_def_i>>
            ELSE /\ W' = gen_test_fn_list(W, test_fn_vals, test_fn_count(fn_protos))
                 /\ pc' = "fn_defs"
                 /\ fn_def_i' = 1
       ELSE /\ pc' = "fn_defs"
            /\ fn_def_i' = 1
            /\ UNCHANGED W
    /\ UNCHANGED <<g, scope, ir, want, nreq, walker_vars, fn_protos, fn_proto_i, fn_vals,
                   test_fn_vals, fn_defs_gen>>

\* g->fn_defs: every function of the code generation has a body
fn_defs(protos) == protos

\* the analyzed executable of a function definition
FnBody(fn) == FnStraight

\* do_code_gen: the head of the body of the loop over g->fn_defs, up to
\* build_all_basic_blocks; the blocks of the builder are those of g->cur_fn_val
GenFnDef ==
    /\ pc = "fn_defs"
    /\ ~W.aborted
    /\ fn_def_i <= Len(fn_defs(fn_protos))
    /\ LET fn == fn_defs(fn_protos)[fn_def_i]
       IN  IF should_skip_fn_codegen(g, fn)
           THEN UNCHANGED <<W, cur_fn, fn_vals, fn_defs_gen>>
           ELSE /\ fn_vals' = [fn_vals EXCEPT ![fn_def_i] = fn_llvm_value(g, fn, @)]
                /\ cur_fn' = FnBody(fn)
                /\ fn_defs_gen' = Append(fn_defs_gen,
                                         [fn |-> fn_def_i, cur_ret_ptr |-> cur_ret_ptr(fn)])
                /\ W' = build_all_basic_blocks(
                            c_assert([W EXCEPT !.blocks = <<>>, !.irb = <<>>, !.cur = NoBlock],
                                     Len(FnBody(fn)) > 0, "function without blocks"),
                            FnBody(fn), 1)
    /\ fn_def_i' = fn_def_i + 1
    /\ UNCHANGED <<g, scope, ir, pc, want, nreq, block_i, instr_i, fn_protos, fn_proto_i,
                   test_fn_vals>>

NextCodeGen ==
    \/ GenerateErrorNameTable
    \/ GenFnProto
    \/ GenTestFnList
    \/ GenFnDef

SpecCodeGen == InitCodeGen /\ [][NextCodeGen]_vars

(***************************************************************************)
(* Properties of the error name table.                                     *)
(***************************************************************************)
\* the globals named err_name_table
ErrNameTables == {i \in 1..Len(W.globals) : W.globals[i].name = "err_name_table"}

\* C11: once generate_error_name_table has run in a build that references an error
\* name and declares an error besides Ok, there is exactly one global err_name_table;
\* its initializer has one entry per entry of the error declaration list, entry 0 is
\* undef, and entry i >= 1 is {pointer, length} where the pointer is to a private
\* global that holds exactly the bytes of the name of the error with value i and
\* the length is the number of those bytes
C11_ErrorNameTable ==
    (pc # "error_name_table" /\ g.generate_error_name_table /\ g.error_decls_length > 1) =>
        /\ Cardinality(ErrNameTables) = 1
        /\ \A t \in ErrNameTables :
              LET table == W.globals[t].init
              IN  /\ table.k = "array"
                  /\ Len(table.e) = Len(error_decls(g))
                  /\ table.e[1].k = "undef"
                  /\ \A i \in 1..(Len(error_decls(g)) - 1) :
                        LET entry == table.e[i + 1]
                            name == error_decls(g)[i + 1]
                            ptr == entry.e[1]
                            str_global == W.globals[ptr.e[1].n]
                        IN  /\ Len(entry.e) = 2
                            /\ ptr.k = "bitcast" /\ ptr.e[1].k = "global"
                            /\ str_global.linkage = "private"
                            /\ Len(str_global.init.e) = Len(name)
                            /\ \A b \in 1..Len(name) : str_global.init.e[b].n = name[b]
                            /\ entry.e[2] = ConstInt(64, Len(name))

\* the table of a build with three declared errors has been generated
C11_Witness ==
    /\ pc # "error_name_table"
    /\ g.generate_error_name_table
    /\ g.error_decls_length = Len(ErrorDecls)
    /\ ErrNameTables # {}
    /\ Len(W.globals) = Len(ErrorDecls)

(***************************************************************************)
(* Properties of the test function list.                                   *)
(***************************************************************************)
\* the test functions among the prototypes the loop has passed
PassedTestFns == {i \in 1..Len(fn_protos) : i < fn_proto_i /\ fn_protos[i].is_test}

\* the functions whose definition was generated
BodiesGenerated == {fn_defs_gen[k].fn : k \in 1..Len(fn_defs_gen)}

TestFnLists == {i \in 1..Len(W.globals) : W.globals[i].name = "zig_test_fn_list"}

\* the value v is the entry {name, fn_ptr} of the function fn_i
IsTestFnEntry(v, fn_i) ==
    /\ v.k = "struct" /\ Len(v.e) = 2
    /\ v.e[2] = FnPtr(fn_i)
    /\ LET name_val == v.e[1]
           str_global == W.globals[name_val.e[1].e[1].n]
       IN  /\ Len(name_val.e) = 2
           /\ name_val.e[1].k = "bitcast"
           /\ [b \in 1..Len(str_global.init.e) |-> str_global.init.e[b].n] = symbol_name(fn_i)
           /\ name_val.e[2] = ConstInt(64, Len(symbol_name(fn_i)))

\* C12: in a test build the test function values are the {name, fn_ptr} entries of
\* the is_test functions, one each, in the order of g->fn_protos, the main function
\* has no prototype and no body, and once the list is generated there is one global
\* zig_test_fn_list, of external linkage, that points to the array of exactly these
\* entries and carries their number; in a build that is not a test build no test
\* function has a prototype, an entry or a body and there is no list
C12_TestFnList ==
    IF g.is_test_build
    THEN /\ Len(test_fn_vals) = Cardinality(PassedTestFns)
         /\ \A i \in PassedTestFns :
               IsTestFnEntry(test_fn_vals[Cardinality({j \in PassedTestFns : j <= i})], i)
         /\ \A i \in 1..Len(fn_protos) :
               (fn_protos[i].is_main /\ ~fn_protos[i].is_test) =>
                   ~fn_vals[i].created /\ i \notin BodiesGenerated
         /\ \A i \in 1..Len(fn_protos) :
               (fn_protos[i].is_test /\ fn_def_i > i) =>
                   fn_vals[i].created /\ i \in BodiesGenerated
         /\ pc = "fn_defs" =>
               /\ Cardinality(TestFnLists) = 1
               /\ \A t \in TestFnLists :
                     LET slice == W.globals[t].init
                         array == W.globals[slice.e[1].e[1].n]
                     IN  /\ W.globals[t].linkage = "external"
                         /\ slice.e[2] = ConstInt(64, test_fn_count(fn_protos))
                         /\ array.init.k = "array"
                         /\ array.init.e = test_fn_vals
                         /\ Len(array.init.e) = test_fn_count(fn_protos)
    ELSE /\ test_fn_vals = <<>>
         /\ TestFnLists = {}
         /\ \A i \in 1..Len(fn_protos) :
               fn_protos[i].is_test => ~fn_vals[i].created /\ i \notin BodiesGenerated

\* a test build with two test functions and a main function has generated its
\* list and its definitions
C12_Witness ==
    /\ g.is_test_build
    /\ pc = "fn_defs"
    /\ fn_def_i > Len(fn_protos)
    /\ test_fn_count(fn_protos) = 2
    /\ Len(fn_protos) = 3 /\ fn_protos[2].is_main
    /\ Len(test_fn_vals) = 2
    /\ TestFnLists # {}

\* a build that is not a test build has passed a test function in both loops
C12_WitnessNoTest ==
    /\ ~g.is_test_build
    /\ pc = "fn_defs"
    /\ fn_def_i > Len(fn_protos)
    /\ \E i \in 1..Len(fn_protos) : fn_protos[i].is_test
    /\ BodiesGenerated # {}

(***************************************************************************)
(* Properties of the temporaries.                                          *)
(***************************************************************************)
\* the backend instructions that have a null handle as an operand
NullOperandInsns(w) ==
    {i \in AllInsns(w) : \E k \in 1..Len(i.args) : i.args[k] = NullRef}

\* C13: an instruction that needs its tmp_ptr and has none aborts the code
\* generation and leaves no backend instruction that uses the missing pointer
C13_MissingTmpPtrAborts ==
    (pc = "done" /\ NeedsTmpPtr(ir) /\ ir.tmp_ptr = NullRef) =>
        W.aborted /\ NullOperandInsns(W) = {}

\* C13 holds for the casts
C13_MissingTmpPtrCastAborts ==
    (pc = "done" /\ ir.id = "Cast" /\ NeedsTmpPtr(ir) /\ ir.tmp_ptr = NullRef) =>
        W.aborted /\ NullOperandInsns(W) = {}

(***************************************************************************)
(* Properties of the block walker.                                         *)
(***************************************************************************)
\* the blocks of the function with ref_count 0
UnreferencedBlocks == {b \in 1..Len(cur_fn) : cur_fn[b].ref_count = 0}

\* the backend instructions of the backend block built for the IR block b
InsnsOfBlock(b) ==
    IF b > Len(W.irb) THEN <<>> ELSE W.blocks[W.irb[b].llvm_block].insns

\* the walker has entered the block b or gone past it
Reached(b) == block_i > b \/ (block_i = b /\ pc = "instr")

\* C14 as claimed: a block with ref_count 0 is passed over, lowering is not stopped
\* at it and nothing is emitted for it; a rendered function has every block with
\* ref_count > 0 lowered
C14_UnreferencedBlockSkipped ==
    /\ \A b \in UnreferencedBlocks :
          /\ Reached(b) => ~W.aborted
          /\ InsnsOfBlock(b) = <<>>
    /\ (pc = "rendered" /\ ~W.aborted) =>
          \A b \in 1..Len(cur_fn) :
              cur_fn[b].ref_count > 0 => InsnsOfBlock(b) # <<>>

\* C14 amended: a block with ref_count 0 is not passed over; when the walker
\* reaches it the code generation aborts, with nothing emitted for it or for a
\* later block; a function is rendered only when every block of its list has
\* ref_count > 0, and then every block is lowered and has its exit block
C14_UnreferencedBlockAborts ==
    /\ \A b \in UnreferencedBlocks :
          /\ Reached(b) => (W.aborted /\ block_i = b)
          /\ \A c \in b..Len(cur_fn) : InsnsOfBlock(c) = <<>>
    /\ (pc = "rendered" /\ ~W.aborted) =>
          \A b \in 1..Len(cur_fn) :
              /\ cur_fn[b].ref_count > 0
              /\ InsnsOfBlock(b) # <<>>
              /\ W.irb[b].llvm_exit_block # NoBlock

\* the walker has lowered the entry block and stopped at the unreferenced block
C14_Witness ==
    /\ UnreferencedBlocks = {2}
    /\ Reached(2)
    /\ W.aborted
    /\ InsnsOfBlock(1) # <<>>

\* the backend instructions that end a block
Terminators == {"ret", "ret void", "br", "condbr", "switch", "unreachable"}

\* the block has no instruction after a terminator
NothingAfterTerminator(bb) ==
    \A j \in 1..(Len(bb.insns) - 1) : bb.insns[j].op \notin Terminators

EndsWithTerminator(bb) ==
    bb.insns # <<>> /\ bb.insns[Len(bb.insns)].op \in Terminators

\* C15: no lowering step appends an instruction to a backend block that has a
\* terminator, and after the function is rendered each backend block ends with its
\* one terminator
C15_OneTerminatorLast ==
    /\ \A k \in 1..Len(W.blocks) : NothingAfterTerminator(W.blocks[k])
    /\ (pc = "rendered" /\ ~W.aborted) =>
          \A k \in 1..Len(W.blocks) : EndsWithTerminator(W.blocks[k])

\* C15 holds for the functions that take no error name, and for every function
\* while an error besides Ok is declared
C15_OneTerminatorLastUnlessErrNameOfOk ==
    (cur_fn # FnErrName \/ g.error_decls_length > 1) => C15_OneTerminatorLast

(***************************************************************************)
(* Properties of the hidden return pointer.                                *)
(***************************************************************************)
\* the prototype of a function of this type has the struct-return parameter
HasSretParam(fn) == <<1, "sret">> \in return_attrs(fn)

\* the call instruction lowered from the IR call I
BackendCall(w, I) == CHOOSE i \in AllInsns(w) : i.op = "call" /\ i.x = "fn"

\* the arguments of the IR call I that reach the backend
GenArgs(I) ==
    SelectSeq(IF I.op_id = "fn_ref" THEN Tail(I.ops) ELSE I.ops,
              LAMBDA a : I.fn.is_var_args \/ type_has_bits(a.type_entry))

\* the backend call passes one argument in front of the arguments of the IR call
PassesHiddenArg(w, I) == Len(BackendCall(w, I).args) = 1 + 1 + Len(GenArgs(I))

\* C16: a lowered call passes a hidden first argument exactly when the prototype
\* of the callee has the struct-return parameter, and the return pointer of the
\* function a lowered return belongs to is non-null exactly when the prototype of
\* that function has it
C16_HiddenReturnPointerAgrees ==
    (pc = "done" /\ ~W.aborted) =>
        /\ ir.id = "Call" => (PassesHiddenArg(W, ir) <=> HasSretParam(ir.fn))
        /\ ir.id = "Return" => ((cur_ret_ptr(ir.fn) # NullRef) <=> HasSretParam(ir.fn))

\* C16 holds for the functions that are not extern
C16_HiddenReturnPointerAgreesUnlessExtern ==
    (pc = "done" /\ ~W.aborted /\ ir.id \in {"Call", "Return"} /\ ~ir.fn.is_extern) =>
        C16_HiddenReturnPointerAgrees

\* C16 for the function definitions of do_code_gen: g->cur_ret_ptr of a generated
\* definition is non-null exactly when its prototype has the sret attribute
C16_CurRetPtrAgrees ==
    \A k \in 1..Len(fn_defs_gen) :
        (fn_defs_gen[k].cur_ret_ptr # NullRef) <=>
            <<1, "sret">> \in fn_vals[fn_defs_gen[k].fn].attrs

(***************************************************************************)
(* Properties of the integer arithmetic.                                   *)
(***************************************************************************)
AddSubMulOps == {"Add", "AddWrap", "Sub", "SubWrap", "Mult", "MultWrap"}
WrapOps == {"AddWrap", "SubWrap", "MultWrap"}

\* the backend operation of an Add, Sub or Mult
RawOp(op_id) ==
    CASE op_id \in {"Add", "AddWrap"} -> "add"
      [] op_id \in {"Sub", "SubWrap"} -> "sub"
      [] op_id \in {"Mult", "MultWrap"} -> "mul"

\* the name of the with.overflow intrinsic of an operation on the integer type t
OverflowIntrinsic(t, op_id) ==
    "llvm." \o (IF Ty(t).is_signed THEN "s" ELSE "u") \o RawOp(op_id)
            \o ".with.overflow.i" \o ToString(Ty(t).bit_count)

\* the backend instructions of the block the instruction was lowered in
LoweredInsns == W.blocks[InstrW.cur].insns

\* the lowered instruction is an Add, Sub or Mult of integers
IsIntAddSubMul ==
    /\ pc = "done" /\ ~W.aborted
    /\ ir.id = "BinOp" /\ ir.op_id \in AddSubMulOps
    /\ Ty(ir.ops[1].type_entry).id = "Int"

\* C17: a wrapping Add, Sub or Mult of integers is lowered to the raw operation
\* alone under every safety setting; a non-wrapping one with its safety_check_on
\* and the safety of its scope both true is lowered to one call of the
\* with.overflow intrinsic of its signedness, operation and width, a branch on the
\* overflow bit to a block that traps, and element 0 as the result; any other one
\* is lowered to the nsw operation when signed and the nuw operation when unsigned
C17_AddSubMulLowering ==
    IsIntAddSubMul =>
        LET t == ir.ops[1].type_entry
            B == LoweredInsns
            plain == /\ Len(B) = 1 /\ AllInsns(W) = {B[1]}
                     /\ B[1].op = RawOp(ir.op_id)
                     /\ Len(W.blocks) = Len(InstrW.blocks)
                     /\ W.module_fns = <<>>
                     /\ W.llvm_value[ir.iid] = InstVal(B[1].id)
        IN  IF ir.op_id \in WrapOps
            THEN plain /\ B[1].x = ""
            ELSE IF ir.safety_check_on /\ ir_want_debug_safety(g, scope)
            THEN /\ Len(B) = 4
                 /\ B[1].op = "call" /\ B[1].x = OverflowIntrinsic(t, ir.op_id)
                 /\ Len(B[1].args) = 2
                 /\ Cardinality({i \in AllInsns(W) : i.op = "call" /\ i.x # trap_fn_val}) = 1
                 /\ B[2].op = "extractvalue" /\ B[2].x = "0" /\ B[2].args = <<InstVal(B[1].id)>>
                 /\ B[3].op = "extractvalue" /\ B[3].x = "1" /\ B[3].args = <<InstVal(B[1].id)>>
                 /\ B[4].op = "condbr" /\ B[4].args = <<InstVal(B[3].id)>>
                 /\ Len(B[4].bbs) = 2
                 /\ IsCrashBlock(W, B[4].bbs[1])
                 /\ W.cur = B[4].bbs[2] /\ W.blocks[W.cur].insns = <<>>
                 /\ W.llvm_value[ir.iid] = InstVal(B[2].id)
            ELSE plain /\ B[1].x = (IF Ty(t).is_signed THEN "nsw" ELSE "nuw")

\* an unsigned checked Mult has been lowered with safety on
C17_Witness ==
    /\ IsIntAddSubMul
    /\ ir.op_id = "Mult" /\ ~Ty(ir.ops[1].type_entry).is_signed
    /\ ir.safety_check_on /\ ir_want_debug_safety(g, scope)
    /\ FailBlocks(W) # {}

(***************************************************************************)
(* Properties of add_bounds_check.                                         *)
(***************************************************************************)
Compares(w) == {i \in AllInsns(w) : i.op = "icmp"}

\* the block bb holds the compare of the target with the bound by pred and the
\* branch on it: to yes when it holds, to no when it fails
IsBoundTest(bb, pred, bound, yes, no) ==
    /\ Len(bb.insns) = 2
    /\ bb.insns[1].op = "icmp" /\ bb.insns[1].x = pred
    /\ bb.insns[1].args = <<ir.target_val, bound>>
    /\ bb.insns[2].op = "condbr" /\ bb.insns[2].args = <<InstVal(bb.insns[1].id)>>
    /\ bb.insns[2].bbs = <<yes, no>>

\* C18: with both bounds add_bounds_check emits two compares, the lower one where
\* the builder was and the upper one in a block whose only predecessor is the
\* passing edge of the lower test, both failing edges go to one block that traps
\* and the builder ends in the ok block, which only the passing edge of the upper
\* test reaches; with one bound it emits the one compare of that bound; with no
\* bound it emits nothing and leaves the builder where it was
C18_BoundsCheckShape ==
    pc = "checked" =>
        LET start == InstrW.cur
            n == Len(InstrW.blocks)
            fail == n + 1
            ok == n + 2
            first_ok == n + 3
        IN  IF ir.lower_value = NullRef /\ ir.upper_value = NullRef
            THEN W = InstrW
            ELSE IF ir.lower_value # NullRef /\ ir.upper_value # NullRef
            THEN /\ Len(W.blocks) = n + 3
                 /\ Cardinality(Compares(W)) = 2
                 /\ IsBoundTest(W.blocks[start], ir.lower_pred, ir.lower_value, first_ok, fail)
                 /\ IsBoundTest(W.blocks[first_ok], ir.upper_pred, ir.upper_value, ok, fail)
                 /\ PredecessorBlocks(W, first_ok) = {start}
                 /\ PredecessorBlocks(W, ok) = {first_ok}
                 /\ PredecessorBlocks(W, fail) = {start, first_ok}
                 /\ IsCrashBlock(W, fail)
                 /\ W.blocks[ok].insns = <<>> /\ W.cur = ok
            ELSE /\ Len(W.blocks) = n + 2
                 /\ Cardinality(Compares(W)) = 1
                 /\ IF ir.lower_value # NullRef
                    THEN IsBoundTest(W.blocks[start], ir.lower_pred, ir.lower_value, ok, fail)
                    ELSE IsBoundTest(W.blocks[start], ir.upper_pred, ir.upper_value, ok, fail)
                 /\ PredecessorBlocks(W, ok) = {start}
                 /\ PredecessorBlocks(W, fail) = {start}
                 /\ IsCrashBlock(W, fail)
                 /\ W.blocks[ok].insns = <<>> /\ W.cur = ok

\* add_bounds_check has been called with both bounds
C18_Witness ==
    /\ pc = "checked"
    /\ ir.lower_value # NullRef /\ ir.upper_value # NullRef
    /\ Cardinality(Compares(W)) = 2

(***************************************************************************)
(* Properties of the integer casts.                                        *)
(***************************************************************************)
\* the lowered instruction is a cast between integer types
IsIntCast ==
    /\ pc = "done" /\ ~W.aborted
    /\ ir.id = "Cast" /\ ir.op_id = "WidenOrShorten"
    /\ Ty(get_underlying_type(ir.ops[1].type_entry)).id = "Int"
    /\ Ty(get_underlying_type(ir.type_entry)).id = "Int"

\* the type of the source and of the destination of the lowered cast
CastFrom == Ty(get_underlying_type(ir.ops[1].type_entry))
CastTo == Ty(get_underlying_type(ir.type_entry))

\* the blocks that end with a branch on the compare c, the branch going to a block
\* that traps when the compare fails
BranchesToTrapOn(c) ==
    {b \in 1..Len(W.blocks) :
        /\ W.blocks[b].insns # <<>>
        /\ LET br == W.blocks[b].insns[Len(W.blocks[b].insns)]
           IN  /\ br.op = "condbr" /\ br.args = <<InstVal(c.id)>>
               /\ Len(br.bbs) = 2 /\ IsCrashBlock(W, br.bbs[2])
               /\ ~IsCrashBlock(W, br.bbs[1])}

\* the checks that the source value is >= 0
SignChecks ==
    {c \in Compares(W) :
        /\ c.x = "sge"
        /\ c.args = <<W.llvm_value[ir.ops[1].iid], ConstNull(CastFrom.bit_count)>>
        /\ BranchesToTrapOn(c) # {}}

\* the checks that the truncated value, extended again, is the source value
ShortenChecks ==
    {c \in Compares(W) :
        /\ c.x = "eq" /\ Len(c.args) = 2
        /\ c.args[1] = W.llvm_value[ir.ops[1].iid]
        /\ \E tr, ext \in AllInsns(W) :
              /\ tr.op = "trunc" /\ tr.args = <<c.args[1]>>
              /\ ext.op = (IF CastFrom.is_signed THEN "sext" ELSE "zext")
              /\ ext.args = <<InstVal(tr.id)>>
              /\ c.args[2] = InstVal(ext.id)
              /\ W.llvm_value[ir.iid] = InstVal(tr.id)
        /\ BranchesToTrapOn(c) # {}}

\* C19: with safety on a cast from a signed to an unsigned integer type of equal
\* or larger width checks that the source is >= 0 and traps otherwise, and a
\* narrowing cast truncates, extends the truncated value again and traps when it
\* differs from the source; with safety off no check is emitted
C19_CastChecks ==
    IsIntCast =>
        IF ir_want_debug_safety(g, scope)
        THEN /\ (CastFrom.is_signed /\ ~CastTo.is_signed /\ CastTo.bit_count >= CastFrom.bit_count)
                    => Cardinality(SignChecks) = 1
             /\ CastFrom.bit_count > CastTo.bit_count => Cardinality(ShortenChecks) = 1
        ELSE NoChecks(W) /\ Compares(W) = {}

\* C19 with the sign check for the destinations of equal or smaller width, as the
\* code has it
C19_CastChecksOfTheCode ==
    IsIntCast =>
        IF ir_want_debug_safety(g, scope)
        THEN /\ (CastFrom.is_signed /\ ~CastTo.is_signed /\ CastFrom.bit_count >= CastTo.bit_count)
                    <=> Cardinality(SignChecks) = 1
             /\ SignChecks = {} \/ Cardinality(SignChecks) = 1
             /\ CastFrom.bit_count > CastTo.bit_count => Cardinality(ShortenChecks) = 1
        ELSE NoChecks(W) /\ Compares(W) = {}

(***************************************************************************)
(* Running the lowered cast.  A run-time integer is [p, bits]: the bit     *)
(* pattern p in 0..2^bits - 1 of a value of bits bits.                     *)
(***************************************************************************)
\* the value a pattern stands for in a type of the given signedness
ValueOf(p, bits, is_signed) ==
    IF is_signed /\ p >= 2 ^ (bits - 1) THEN p - 2 ^ bits ELSE p

\* the values of an integer type
Representable(n, t) ==
    IF t.is_signed THEN n >= -(2 ^ (t.bit_count - 1)) /\ n < 2 ^ (t.bit_count - 1)
    ELSE n >= 0 /\ n < 2 ^ t.bit_count

\* the run-time value of an operand: a constant, or the result of an instruction
RunValue(env, v) == IF v.k = "int" THEN [p |-> v.n, bits |-> v.m] ELSE env[v]

Abs(n) == IF n < 0 THEN -n ELSE n

\* the pattern of the value n in a type of the given width
PatternOf(n, bits) == (n + 2 ^ bits) % (2 ^ bits)

\* the quotient of two integers, rounded towards zero
Quot(x, y) == (IF (x < 0) = (y < 0) THEN 1 ELSE -1) * (Abs(x) \div Abs(y))

\* the pattern a division or remainder instruction yields; Undefined stands for
\* the undefined result of a division by zero
Undefined == -1
Divide(op, a, b) ==
    IF b.p = 0 THEN Undefined
    ELSE CASE op = "udiv" -> a.p \div b.p
           [] op = "urem" -> a.p % b.p
           [] op = "sdiv" -> PatternOf(Quot(ValueOf(a.p, a.bits, TRUE), ValueOf(b.p, b.bits, TRUE)), a.bits)
           [] op = "srem" -> PatternOf(ValueOf(a.p, a.bits, TRUE)
                                 - ValueOf(b.p, b.bits, TRUE)
                                   * Quot(ValueOf(a.p, a.bits, TRUE), ValueOf(b.p, b.bits, TRUE)),
                                 a.bits)

\* the largest integer that is at most n / 2^k
FloorShift(n, k) ==
    IF n >= 0 THEN n \div (2 ^ k) ELSE -((-n + 2 ^ k - 1) \div (2 ^ k))

\* the pattern a shift instruction yields; a shift by the width or more is undefined
Shift(op, a, b) ==
    IF b.p >= a.bits THEN Undefined
    ELSE CASE op = "shl"  -> (a.p * 2 ^ b.p) % (2 ^ a.bits)
           [] op = "lshr" -> a.p \div (2 ^ b.p)
           [] op = "ashr" -> PatternOf(FloorShift(ValueOf(a.p, a.bits, TRUE), b.p), a.bits)

\* the result of one backend instruction that computes a value
Compute(i, env) ==
    LET a == RunValue(env, i.args[1]) IN
    CASE i.op = "trunc" -> [p |-> a.p % (2 ^ Ty(i.x).bit_count), bits |-> Ty(i.x).bit_count]
      [] i.op = "zext"  -> [p |-> a.p, bits |-> Ty(i.x).bit_count]
      [] i.op = "sext"  -> [p |-> IF a.p >= 2 ^ (a.bits - 1)
                                  THEN a.p + 2 ^ Ty(i.x).bit_count - 2 ^ a.bits ELSE a.p,
                            bits |-> Ty(i.x).bit_count]
      [] i.op \in {"udiv", "urem", "sdiv", "srem"} ->
            [p |-> Divide(i.op, a, RunValue(env, i.args[2])), bits |-> a.bits]
      [] i.op \in {"shl", "lshr", "ashr"} ->
            [p |-> Shift(i.op, a, RunValue(env, i.args[2])), bits |-> a.bits]
      [] i.op = "icmp"  ->
            LET b == RunValue(env, i.args[2]) IN
            [p |-> IF (CASE i.x = "eq"  -> a.p = b.p
                         [] i.x = "ne"  -> a.p # b.p
                         [] i.x = "sge" -> ValueOf(a.p, a.bits, TRUE) >= ValueOf(b.p, b.bits, TRUE)
                         [] i.x = "ult" -> a.p < b.p)
                   THEN 1 ELSE 0,
             bits |-> 1]

RECURSIVE Exec(_, _, _, _)
\* the run of the backend code of w from the j-th instruction of block b: it ends in
\* the trap, or at the end of the code emitted so far
Exec(w, b, j, env) ==
    IF j > Len(w.blocks[b].insns) THEN [trapped |-> FALSE, env |-> env]
    ELSE LET i == w.blocks[b].insns[j] IN
         CASE i.op = "call" /\ i.x = trap_fn_val -> [trapped |-> TRUE, env |-> env]
           [] i.op = "condbr" ->
                Exec(w, IF RunValue(env, i.args[1]).p = 1 THEN i.bbs[1] ELSE i.bbs[2], 1, env)
           [] i.op \in {"trunc", "zext", "sext", "icmp", "udiv", "urem", "sdiv", "srem",
                        "shl", "lshr", "ashr"} ->
                Exec(w, b, j + 1, (InstVal(i.id) :> Compute(i, env)) @@ env)

\* the source patterns the lowered casts are run on: the values around the ends of
\* the ranges of the 8 and 16 bit types
Patterns16 ==
    (0..300) \cup (32700..32800) \cup (65200..65535)

\* the run of the lowered cast on the source pattern p
RunCast(p) ==
    Exec(W, InstrW.cur, 1, W.llvm_value[ir.ops[1].iid] :> [p |-> p, bits |-> CastFrom.bit_count])

\* the lowered instruction is a safe narrowing cast of a 16 bit integer
IsSafeNarrowing16 ==
    /\ IsIntCast /\ ir_want_debug_safety(g, scope)
    /\ CastFrom.bit_count = 16 /\ CastTo.bit_count < 16

\* the run of the lowered cast on p traps exactly when the source value is not a
\* value of the destination type, and otherwise yields the source value
TrapsWhenNotRepresentable(p) ==
    LET r == RunCast(p)
        n == ValueOf(p, CastFrom.bit_count, CastFrom.is_signed)
    IN  /\ r.trapped <=> ~Representable(n, CastTo)
        /\ ~r.trapped =>
              LET res == RunValue(r.env, W.llvm_value[ir.iid])
              IN  /\ res.bits = CastTo.bit_count
                  /\ ValueOf(res.p, res.bits, CastTo.is_signed) = n

\* C20: with safety on an integer narrowing cast traps exactly when the source
\* value is not representable in the destination type, whatever the signedness
\* of the source and of the destination, and when it does not trap the result is
\* the source value
C20_NarrowingTrapsWhenNotRepresentable ==
    IsSafeNarrowing16 => \A p \in Patterns16 : TrapsWhenNotRepresentable(p)

\* C20 for a source and a destination of the same signedness
C20_NarrowingSameSignedness ==
    (IsSafeNarrowing16 /\ CastFrom.is_signed = CastTo.is_signed)
        => \A p \in Patterns16 : TrapsWhenNotRepresentable(p)

\* a signed source that fits the unsigned destination traps: 200 from i16 to u8
C20_NoSpuriousTrap ==
    (IsSafeNarrowing16 /\ CastFrom.is_signed /\ ~CastTo.is_signed)
        => ~RunCast(200).trapped

\* an unsigned source that does not fit the signed destination is not trapped:
\* 200 from u16 to i8
C20_NoMissedTrap ==
    (IsSafeNarrowing16 /\ ~CastFrom.is_signed /\ CastTo.is_signed)
        => RunCast(200).trapped

(***************************************************************************)
(* Properties of the division.                                             *)
(***************************************************************************)
\* a division has been lowered: a Div instruction, or a call of gen_div
IsDiv ==
    /\ ~W.aborted
    /\ \/ pc = "done" /\ ir.id = "BinOp" /\ ir.op_id = "Div"
       \/ pc = "divided"

\* the arguments gen_div got
DivExact == pc = "divided" /\ ir.exact
DivType == Ty(IF pc = "divided" THEN ir.type_entry ELSE ir.ops[1].type_entry)
DivWant ==
    IF pc = "divided" THEN ir.want_debug_safety
    ELSE ir.safety_check_on /\ ir_want_debug_safety(g, scope)
DivVal1 == IF pc = "divided" THEN ir.val1 ELSE W.llvm_value[ir.ops[1].iid]
DivVal2 == IF pc = "divided" THEN ir.val2 ELSE W.llvm_value[ir.ops[2].iid]

DivOps == {"sdiv", "udiv", "fdiv"}
RemOps == {"srem", "urem"}

\* i is the division of the operands
IsQuotient(i) ==
    /\ i.op = (IF DivType.id = "Float" THEN "fdiv" ELSE IF DivType.is_signed THEN "sdiv" ELSE "udiv")
    /\ i.x = (IF DivExact THEN "exact" ELSE "")
    /\ i.args = <<DivVal1, DivVal2>>
    /\ W.ret = InstVal(i.id)

\* the instructions of the block the builder was in end with a compare c and a
\* branch on it, to the trap when c is fail_on and to the block ok otherwise
EndsWithCheck(insns, c, fail_on, ok) ==
    /\ insns # <<>>
    /\ LET br == insns[Len(insns)]
       IN  /\ br.op = "condbr" /\ br.args = <<InstVal(c.id)>>
           /\ br.bbs = (IF fail_on THEN <<The({b \in 1..Len(W.blocks) : b # ok /\ b \in {br.bbs[1]}}), ok>>
                                   ELSE <<ok, The({b \in 1..Len(W.blocks) : b # ok /\ b \in {br.bbs[2]}})>>)
           /\ IsCrashBlock(W, IF fail_on THEN br.bbs[1] ELSE br.bbs[2])

\* the shape of the code of a checked division
CheckedDivShape ==
    LET start == W.blocks[InstrW.cur].insns IN
    /\ Len(start) = 2
    /\ start[1].op = (IF DivType.id = "Float" THEN "fcmp" ELSE "icmp")
    /\ start[1].x = (IF DivType.id = "Float" THEN "oeq" ELSE "eq")
    /\ start[1].args = <<DivVal2, ConstNull(DivType.bit_count)>>
    /\ \E zero_ok \in 1..Len(W.blocks) :
          /\ EndsWithCheck(start, start[1], TRUE, zero_ok)
          /\ LET ok == W.blocks[zero_ok].insns IN
             IF DivExact
             THEN /\ Len(ok) = 3
                  /\ ok[1].op = (IF DivType.is_signed THEN "srem" ELSE "urem")
                  /\ ok[1].args = <<DivVal1, DivVal2>>
                  /\ ok[2].op = "icmp" /\ ok[2].x = "eq"
                  /\ ok[2].args = <<InstVal(ok[1].id), ConstNull(DivType.bit_count)>>
                  /\ \E exact_ok \in 1..Len(W.blocks) :
                        /\ EndsWithCheck(ok, ok[2], FALSE, exact_ok)
                        /\ Len(W.blocks[exact_ok].insns) = 1
                        /\ IsQuotient(W.blocks[exact_ok].insns[1])
                  /\ Len(W.blocks) = Len(InstrW.blocks) + 4
             ELSE /\ Len(ok) = 1 /\ IsQuotient(ok[1])
                  /\ Len(W.blocks) = Len(InstrW.blocks) + 2

\* the shape of the code of an unchecked division: the division alone
UncheckedDivShape ==
    /\ Len(W.blocks) = Len(InstrW.blocks)
    /\ Len(W.blocks[InstrW.cur].insns) = 1
    /\ IsQuotient(W.blocks[InstrW.cur].insns[1])

\* the patterns the lowered divisions of 8 bit integers are run on
Patterns8 == {0, 1, 2, 3, 6, 7, 127, 128, 129, 250, 254, 255}

\* the run of the lowered division on the patterns a and b of the operands
RunDiv(a, b) ==
    Exec(W, InstrW.cur, 1,
         (DivVal1 :> [p |-> a, bits |-> DivType.bit_count])
         @@ (DivVal2 :> [p |-> b, bits |-> DivType.bit_count]))

\* the results of the division and remainder instructions of a run
Computed(r) ==
    {r.env[InstVal(i.id)] : i \in {j \in AllInsns(W) : j.op \in DivOps \cup RemOps
                                                        /\ InstVal(j.id) \in DOMAIN r.env}}

\* the run of a checked division traps when the divisor is zero, and in an exact
\* division when the remainder is not zero, with nothing divided by zero; it
\* yields the quotient otherwise
CheckedDivRun(a, b) ==
    LET r == RunDiv(a, b)
        x == ValueOf(a, DivType.bit_count, DivType.is_signed)
        y == ValueOf(b, DivType.bit_count, DivType.is_signed)
    IN  /\ \A c \in Computed(r) : c.p # Undefined
        /\ b = 0 => r.trapped /\ Computed(r) = {}
        /\ b # 0 => /\ r.trapped <=> (DivExact /\ x # y * Quot(x, y))
                    /\ ~r.trapped => RunValue(r.env, W.ret).p = PatternOf(Quot(x, y), DivType.bit_count)

\* C21: with safety on the division tests the divisor against zero and branches
\* to the trap before the division and, when exact, before the remainder, so
\* nothing is divided on the path of a zero divisor; an exact division also traps
\* on a remainder that is not zero; with safety off no compare and no branch is
\* emitted
C21_DivisionChecks ==
    IsDiv =>
        IF DivWant
        THEN /\ CheckedDivShape
             /\ (DivType.id = "Int" /\ DivType.bit_count = 8)
                    => \A a, b \in Patterns8 : CheckedDivRun(a, b)
        ELSE UncheckedDivShape

\* an exact division of integers is lowered with safety on
C21_Witness ==
    /\ IsDiv /\ DivWant /\ DivExact /\ DivType.is_signed
    /\ RunDiv(7, 2).trapped /\ RunDiv(7, 0).trapped /\ ~RunDiv(6, 2).trapped

\* a Div instruction is lowered with safety on
C21_WitnessDiv ==
    /\ IsDiv /\ DivWant /\ pc = "done" /\ DivType.id = "Int" /\ DivType.bit_count = 8
    /\ RunDiv(7, 0).trapped /\ ~RunDiv(7, 2).trapped

(***************************************************************************)
(* Properties of the left shift.                                           *)
(***************************************************************************)
\* a non-wrapping left shift of 8 bit integers has been lowered with its check
IsCheckedShl8 ==
    /\ pc = "done" /\ ~W.aborted
    /\ ir.id = "BinOp" /\ ir.op_id = "BitShiftLeft"
    /\ ir.safety_check_on /\ ir_want_debug_safety(g, scope)
    /\ Ty(ir.ops[1].type_entry).id = "Int" /\ Ty(ir.ops[1].type_entry).bit_count = 8

ShlType == Ty(ir.ops[1].type_entry)

\* the run of the lowered shift on the pattern a shifted by k
RunShl(a, k) ==
    Exec(W, InstrW.cur, 1,
         (W.llvm_value[ir.ops[1].iid] :> [p |-> a, bits |-> ShlType.bit_count])
         @@ (W.llvm_value[ir.ops[2].iid] :> [p |-> k, bits |-> ShlType.bit_count]))

\* the patterns the lowered shifts are run on: those next to a power of two or to
\* the negation of one, where the shifted value leaves the range of the type for
\* some shift amount, and some between them
ShlPatterns ==
    {p \in 0..255 : \/ \E j \in 0..8 : Abs(p - 2 ^ j) <= 1 \/ Abs(p - (256 - 2 ^ j)) <= 1
                    \/ p % 21 = 0}

\* the run traps exactly when val1 * 2^val2 is not a value of the type, and yields
\* that value otherwise
ShlTrapsOnOverflow(a, k) ==
    LET r == RunShl(a, k)
        exact == ValueOf(a, ShlType.bit_count, ShlType.is_signed) * 2 ^ k
    IN  /\ r.trapped <=> ~Representable(exact, ShlType)
        /\ ~r.trapped =>
              LET res == RunValue(r.env, W.llvm_value[ir.iid])
              IN  ValueOf(res.p, res.bits, ShlType.is_signed) = exact

\* C22: with safety on and a shift amount smaller than the bit width, the
\* non-wrapping left shift traps exactly when val1 * 2^val2 is not representable
\* in the integer type of the operands, signed or unsigned, and yields that value
\* otherwise
C22_ShlTrapsOnOverflow ==
    IsCheckedShl8 => \A a \in ShlPatterns, k \in 0..7 : ShlTrapsOnOverflow(a, k)

\* checked shifts of a signed operand are run: -1 shifted by 1 is -2, 64 shifted
\* by 1 traps
C22_Witness ==
    /\ IsCheckedShl8 /\ ShlType.is_signed
    /\ ~RunShl(255, 1).trapped /\ RunShl(64, 1).trapped

\* checked shifts of an unsigned operand are run
C22_WitnessUnsigned ==
    /\ IsCheckedShl8 /\ ~ShlType.is_signed
    /\ ~RunShl(64, 1).trapped /\ RunShl(128, 1).trapped

(***************************************************************************)
(* Properties of ElemPtr.                                                  *)
(***************************************************************************)
\* an ElemPtr has been lowered
IsElemPtr == pc = "done" /\ ~W.aborted /\ ir.id = "ElemPtr"

\* the type indexed, the handles of the operands, the safety of the instruction
ElemArrayType == Ty(Ty(ir.ops[1].type_entry).child_type)
ElemBase == W.llvm_value[ir.ops[1].iid]
ElemIndex == W.llvm_value[ir.ops[2].iid]
ElemSafe == ir.safety_check_on /\ ir_want_debug_safety(g, scope)

Geps(w) == {i \in AllInsns(w) : i.op = "inboundsgep"}

\* insns ends with the compare of the index, unsigned less than, with bound and
\* the branch on it: to the block ok when it passes and to a trap when it fails
EndsWithIndexCheck(insns, bound, ok) ==
    /\ Len(insns) >= 2
    /\ LET cmp == insns[Len(insns) - 1]
           br == insns[Len(insns)]
       IN  /\ cmp.op = "icmp" /\ cmp.x = "ult" /\ cmp.args = <<ElemIndex, bound>>
           /\ br.op = "condbr" /\ br.args = <<InstVal(cmp.id)>>
           /\ Len(br.bbs) = 2 /\ br.bbs[1] = ok /\ br.bbs[2] # ok
           /\ IsCrashBlock(W, br.bbs[2])
    /\ PredecessorBlocks(W, ok) = {InstrW.cur}
    /\ Cardinality(Compares(W)) = 1

\* the GEP of the result is the last instruction of the block b, with these operands
GepIn(b, operands) ==
    /\ W.blocks[b].insns # <<>>
    /\ LET gep == W.blocks[b].insns[Len(W.blocks[b].insns)]
       IN  /\ gep.op = "inboundsgep" /\ gep.args = operands
           /\ Geps(W) = {gep}
           /\ W.llvm_value[ir.iid] = InstVal(gep.id)

\* a checked ElemPtr on an array: the compare with the constant length where the
\* builder was, the GEP [0, i] alone in the block of the passing edge
CheckedArrayElemPtr ==
    LET start == W.blocks[InstrW.cur].insns IN
    \E ok \in 1..Len(W.blocks) :
        /\ Len(start) = 2
        /\ EndsWithIndexCheck(start, ConstInt(64, ElemArrayType.len), ok)
        /\ Len(W.blocks[ok].insns) = 1
        /\ GepIn(ok, <<ElemBase, ConstNull(64), ElemIndex>>)

\* a checked ElemPtr on a slice: the length field is loaded and compared where the
\* builder was, the pointer field is loaded and indexed in the block of the
\* passing edge
CheckedSliceElemPtr ==
    LET start == W.blocks[InstrW.cur].insns IN
    \E ok \in 1..Len(W.blocks) :
        /\ Len(start) = 4
        /\ start[1].op = "structgep" /\ start[1].args = <<ElemBase>>
        /\ start[1].x = ToString(ElemArrayType.fields[2].gen_index)
        /\ start[2].op = "load" /\ start[2].args = <<InstVal(start[1].id)>>
        /\ EndsWithIndexCheck(start, InstVal(start[2].id), ok)
        /\ LET rest == W.blocks[ok].insns IN
           /\ Len(rest) = 3
           /\ rest[1].op = "structgep" /\ rest[1].args = <<ElemBase>>
           /\ rest[1].x = ToString(ElemArrayType.fields[1].gen_index)
           /\ rest[2].op = "load" /\ rest[2].args = <<InstVal(rest[1].id)>>
           /\ GepIn(ok, <<InstVal(rest[2].id), ElemIndex>>)

\* an ElemPtr on a raw pointer: the pointer is loaded and indexed by a one-index
\* GEP where the builder was, with no compare, no branch and no new block
PointerElemPtr ==
    LET start == W.blocks[InstrW.cur].insns IN
    /\ Len(start) = 2
    /\ start[1].op = "load" /\ start[1].args = <<ElemBase>>
    /\ GepIn(InstrW.cur, <<InstVal(start[1].id), ElemIndex>>)
    /\ Len(W.blocks) = Len(InstrW.blocks)
    /\ NoChecks(W) /\ Compares(W) = {}

\* C23: with the safety of the scope and of the instruction both on, ElemPtr on
\* an array compares the index unsigned less than with the constant length and
\* emits the GEP [0, i] only in the block of the passing edge; on a slice the
\* length field is loaded and checked in the same way before the pointer field is
\* loaded and indexed; on a raw pointer a one-index GEP is emitted and never a
\* bounds check
C23_ElemPtrChecks ==
    IsElemPtr =>
        CASE ElemArrayType.id = "Array"   -> ElemSafe => CheckedArrayElemPtr
          [] ElemArrayType.id = "Struct"  -> ElemSafe => CheckedSliceElemPtr
          [] ElemArrayType.id = "Pointer" -> PointerElemPtr

\* C23 for the arrays and slices that have bits
C23_ElemPtrChecksOfTypesWithBits ==
    (IsElemPtr /\ ~ElemArrayType.zero_bits) => C23_ElemPtrChecks

\* checked ElemPtr instructions on an array with bits are lowered
C23_Witness ==
    IsElemPtr /\ ElemSafe /\ ElemArrayType.id = "Array" /\ CheckedArrayElemPtr

(***************************************************************************)
(* Properties of DeclVar.                                                  *)
(***************************************************************************)
\* a DeclVar has been lowered
IsDeclVar == pc = "done" /\ ~W.aborted /\ ir.id = "DeclVar"

\* the variable has bits and is referenced
DeclVarIsLive == type_has_bits(ir.var.type) /\ ir.var.ref_count > 0

\* the writes of the emitted code
StoreInsns == {i \in AllInsns(W) : i.op = "store"}
MemcpyCalls == {i \in AllInsns(W) : i.op = "call" /\ i.x = memcpy_fn_val}
MemsetCalls == {i \in AllInsns(W) : i.op = "call" /\ i.x = memset_fn_val}

\* v is the slot of the variable cast to a byte pointer
IsSlotAsBytes(v) ==
    \E c \in AllInsns(W) :
        c.op = "bitcast" /\ c.args = <<ir.var.value_ref>> /\ v = InstVal(c.id)

\* the one write is a store of the initializer to the slot, or a memcpy to it
InitStoredOrCopied ==
    /\ MemsetCalls = {}
    /\ Cardinality(StoreInsns \cup MemcpyCalls) = 1
    /\ \A i \in StoreInsns : i.args[2] = ir.var.value_ref /\ i.args[1] # NullRef
    /\ \A i \in MemcpyCalls : IsSlotAsBytes(i.args[1])

\* the one write is a memset of the slot with the byte fill
SlotFilled(fill) ==
    /\ StoreInsns = {} /\ MemcpyCalls = {}
    /\ Cardinality(MemsetCalls) = 1
    /\ \A i \in MemsetCalls : IsSlotAsBytes(i.args[1]) /\ i.args[2] = ConstInt(8, fill)

NothingWritten == StoreInsns = {} /\ MemcpyCalls = {} /\ MemsetCalls = {}

\* the initialisation the initializer chooses
InitActionOfInitializer ==
    CASE ir.ops[1].special \in {"Runtime", "Static"} -> InitStoredOrCopied
      [] ir.ops[1].special = "Zeroes" -> SlotFilled(0)
      [] ir.ops[1].special = "Undef" ->
            IF ir_want_debug_safety(g, scope) THEN SlotFilled(170) ELSE NothingWritten

\* C24: lowering a DeclVar performs the one initialisation its initializer
\* chooses: a Runtime or Static initializer is stored or copied to the slot of the
\* variable with no memset, a Zeroes one fills the slot with 0x00, an Undef one
\* fills it with 0xAA when safety is on and writes nothing when safety is off
C24_DeclVarInit == IsDeclVar => InitActionOfInitializer

\* C24 for the variables that have bits and are referenced; for the others
\* nothing is emitted
C24_LiveDeclVarInit ==
    IsDeclVar => IF DeclVarIsLive THEN InitActionOfInitializer ELSE AllInsns(W) = {}

\* a referenced variable is filled with zeroes, and an unreferenced one with an
\* initializer is left alone
C24_Witness ==
    /\ IsDeclVar /\ DeclVarIsLive /\ ir.ops[1].special = "Zeroes" /\ SlotFilled(0)

C24_WitnessStored ==
    /\ IsDeclVar /\ DeclVarIsLive /\ ir.ops[1].special = "Static" /\ StoreInsns # {}

C24_WitnessUnreferenced ==
    /\ IsDeclVar /\ type_has_bits(ir.var.type) /\ ir.var.ref_count = 0
    /\ ir.ops[1].special = "Runtime" /\ AllInsns(W) = {}

\* C25: every lowered DeclVar emits a debug-declare for its variable, whatever
\* the size of its type, its reference count and its initializer
C25_AlwaysDebugDeclare == IsDeclVar => W.dbg_declares = 1

\* C25 as the code has it: one debug-declare when the variable has bits and is
\* referenced, whatever the initializer and the safety, and none otherwise
C25_DebugDeclareOfLiveVar ==
    IsDeclVar => W.dbg_declares = (IF DeclVarIsLive THEN 1 ELSE 0)

\* a referenced variable with an Undef initializer is declared with safety off
C25_Witness ==
    /\ IsDeclVar /\ DeclVarIsLive /\ ir.ops[1].special = "Undef"
    /\ ~ir_want_debug_safety(g, scope) /\ W.dbg_declares = 1

C25_WitnessNoBits ==
    IsDeclVar /\ ~type_has_bits(ir.var.type) /\ ir.var.ref_count > 0 /\ W.dbg_declares = 0

(***************************************************************************)
(* Properties of the argument list of a call.                              *)
(***************************************************************************)
\* a Call whose temporary was allocated when its callee returns by reference
IsCall ==
    /\ pc = "done" /\ ir.id = "Call"
    /\ (type_has_bits(ir.fn.return_type) /\ handle_is_ptr(ir.fn.return_type))
          => ir.tmp_ptr # NullRef

\* the arguments of the IR call, and whether one of them is zero-sized
CallArgs == IF ir.op_id = "fn_ref" THEN Tail(ir.ops) ELSE ir.ops
HasZeroSizedArg == \E k \in 1..Len(CallArgs) : ~type_has_bits(CallArgs[k].type_entry)

\* v is the backend value of the argument a
IsValueOfArg(v, a) ==
    IF ~type_has_bits(a.type_entry) THEN v = NullRef
    ELSE IF a.special = "Runtime" THEN v = InstrW.llvm_value[a.iid]
    ELSE v # NullRef

\* the backend call has the temporary first when the callee returns by reference,
\* then the values of the arguments args in their order
CallPasses(args) ==
    LET by_ref == type_has_bits(ir.fn.return_type) /\ handle_is_ptr(ir.fn.return_type)
        hidden == IF by_ref THEN 1 ELSE 0
        params == Tail(BackendCall(W, ir).args)
    IN  /\ \E i \in AllInsns(W) : i.op = "call" /\ i.x = "fn"
        /\ Len(params) = hidden + Len(args)
        /\ by_ref => params[1] = ir.tmp_ptr
        /\ \A k \in 1..Len(args) : IsValueOfArg(params[hidden + k], args[k])

\* C26: the backend argument list of a call is the temporary when the callee
\* returns by reference, then the arguments in source order, without the
\* zero-sized ones when the callee is not variadic and with every argument when
\* it is; the call is lowered without abort in both cases
C26_CallArguments ==
    IsCall =>
        /\ ~W.aborted
        /\ CallPasses(IF ir.fn.is_var_args THEN CallArgs
                      ELSE SelectSeq(CallArgs, LAMBDA a : type_has_bits(a.type_entry)))

\* C26 but for a variadic callee with a zero-sized argument, whose call aborts
C26_CallArgumentsUnlessVariadicZeroSized ==
    IsCall =>
        IF ir.fn.is_var_args /\ HasZeroSizedArg
        THEN W.aborted /\ W.why = "argument without a value"
        ELSE C26_CallArguments

(***************************************************************************)
(* Properties of the entry and exit handles of the blocks.                 *)
(***************************************************************************)
\* the backend blocks build_all_basic_blocks makes are 1..Len(cur_fn); the blocks
\* the lowering appends come after them
IsAppended(k) == k > Len(cur_fn)

RECURSIVE RegionFrom(_)
\* the backend blocks reached from the blocks S by branches to appended blocks
RegionFrom(S) ==
    LET T == S \cup {k \in 1..Len(W.blocks) : IsAppended(k) /\ PredecessorBlocks(W, k) \cap S # {}}
    IN  IF T = S THEN S ELSE RegionFrom(T)

\* the backend blocks the IR block b was lowered to
BlocksOf(b) == RegionFrom({W.irb[b].llvm_block})

\* the backend block that holds the instruction emitted last among the blocks S
LastEmittedIn(S) ==
    LET insns == UNION {{<<k, W.blocks[k].insns[j].id>> : j \in 1..Len(W.blocks[k].insns)} : k \in S}
    IN  The({p \in insns : \A q \in insns : q[2] <= p[2]})[1]

\* the IR blocks whose instructions have all been lowered
LoweredBlocks ==
    IF pc = "rendered" THEN 1..Len(cur_fn)
    ELSE IF pc \in {"block", "instr"} THEN 1..(block_i - 1) ELSE {}

\* every IR block has its entry handle, a backend block of its own
EntryHandlesExist ==
    /\ Len(W.irb) = Len(cur_fn) /\ Len(W.blocks) >= Len(cur_fn)
    /\ \A b \in 1..Len(cur_fn) : W.irb[b].llvm_block = b

\* the terminator last emitted goes to the entry handles of the destinations of
\* the IR branch just lowered
BranchTargetsEntryHandles ==
    LET insns == W.blocks[W.cur].insns
        t == insns[Len(insns)]
    IN  /\ insns # <<>>
        /\ t.op = (CASE ir.id = "Br" -> "br" [] ir.id = "CondBr" -> "condbr"
                     [] ir.id = "SwitchBr" -> "switch")
        /\ t.bbs = [k \in 1..Len(ir.bbs) |-> W.irb[ir.bbs[k]].llvm_block]
        /\ \A k \in 1..Len(t.bbs) : ~IsAppended(t.bbs[k])

\* C27: the exit handle of a lowered IR block is the backend block in which its
\* last instruction was emitted; it is the entry handle exactly when lowering the
\* block appended no block of a safety check; a Br, CondBr or SwitchBr branches to
\* entry handles, and every block has its entry handle before the first
\* instruction of the function is lowered
C27_EntryAndExitHandles ==
    /\ (pc # "build" \/ AllInsns(W) # {}) => EntryHandlesExist
    /\ pc = "build" => AllInsns(W) = {}
    /\ \A b \in LoweredBlocks :
          /\ W.irb[b].llvm_exit_block = LastEmittedIn(BlocksOf(b))
          /\ (W.irb[b].llvm_exit_block = W.irb[b].llvm_block) <=> (BlocksOf(b) = {W.irb[b].llvm_block})
    /\ (pc = "instr" /\ ~W.aborted /\ instr_i > 1 /\ ir.id \in {"Br", "CondBr", "SwitchBr"})
          => BranchTargetsEntryHandles
    /\ \A i \in AllInsns(W) :
          i.op \in {"br", "switch"} => \A k \in 1..Len(i.bbs) : ~IsAppended(i.bbs[k])

\* a function is rendered with a block that a safety check split and a block
\* that none split, after a switch
C27_Witness ==
    /\ pc = "rendered" /\ cur_fn = FnSwitch
    /\ W.irb[1].llvm_exit_block # W.irb[1].llvm_block
    /\ W.irb[2].llvm_exit_block = W.irb[2].llvm_block
    /\ \E i \in AllInsns(W) : i.op = "switch" /\ i.bbs = <<2, 3, 2>>

(***************************************************************************)
(* The intrinsic tables: the renderers ask for intrinsics in any order.    *)
(***************************************************************************)
\* the requests: get_int_overflow_fn(type_entry, add_sub_mul) and
\* get_int_builtin_fn(type_entry, fn_id)
OverflowFnRequests ==
    [id : {"get_int_overflow_fn"}, type_entry : IntTypeNames,
     add_sub_mul : {AddSubMulAdd, AddSubMulSub, AddSubMulMul}, fn_id : {""}]
BuiltinFnRequests ==
    [id : {"get_int_builtin_fn"}, type_entry : IntTypeNames,
     add_sub_mul : {AddSubMulAdd}, fn_id : {"Ctz", "Clz"}]

InitIntrinsics ==
    /\ g = NoG
    /\ scope = <<>>
    /\ W = EmptyW
    /\ ir = NoIr
    /\ pc = "idle"
    /\ want = FALSE
    /\ nreq = 0
    /\ NoWalk
    /\ NoProtos

GetIntOverflowFn(r) ==
    /\ nreq < MaxRequests
    /\ W' = get_int_overflow_fn(W, r.type_entry, r.add_sub_mul)
    /\ ir' = r
    /\ pc' = "requested"
    /\ nreq' = nreq + 1
    /\ UNCHANGED <<g, scope, want, walker_vars, proto_vars>>

GetIntBuiltinFn(r) ==
    /\ nreq < MaxRequests
    /\ W' = get_int_builtin_fn(W, r.type_entry, r.fn_id)
    /\ ir' = r
    /\ pc' = "requested"
    /\ nreq' = nreq + 1
    /\ UNCHANGED <<g, scope, want, walker_vars, proto_vars>>

NextIntrinsics ==
    \/ \E r \in OverflowFnRequests : GetIntOverflowFn(r)
    \/ \E r \in BuiltinFnRequests : GetIntBuiltinFn(r)

SpecIntrinsics == InitIntrinsics /\ [][NextIntrinsics]_vars

\* the name of the intrinsic of a request
IntrinsicName(r) ==
    LET bits == ToString(Ty(r.type_entry).bit_count)
        sign == IF Ty(r.type_entry).is_signed THEN "s" ELSE "u"
    IN  IF r.id = "get_int_overflow_fn"
        THEN "llvm." \o sign
                 \o (CASE r.add_sub_mul = AddSubMulAdd -> "add"
                       [] r.add_sub_mul = AddSubMulSub -> "sub"
                       [] r.add_sub_mul = AddSubMulMul -> "mul")
                 \o ".with.overflow.i" \o bits
        ELSE "llvm." \o (IF r.fn_id = "Ctz" THEN "cttz" ELSE "ctlz") \o ".i" \o bits

\* the positions of the declarations of a name in the module
DeclarationsOf(name) == {k \in 1..Len(W.module_fns) : W.module_fns[k] = name}

\* C28: over any sequence of requests every overflow intrinsic is declared at
\* most once for a signedness, operation and width and every ctz or clz intrinsic
\* at most once for an operation and width, and a request returns the handle of
\* the first declaration of its intrinsic
C28_IntrinsicsMemoized ==
    /\ \A r \in OverflowFnRequests \cup BuiltinFnRequests :
          Cardinality(DeclarationsOf(IntrinsicName(r))) <= 1
    /\ Len(W.module_fns) <= nreq
    /\ pc = "requested" =>
          /\ ~W.aborted
          /\ W.ret.k = "fn"
          /\ DeclarationsOf(IntrinsicName(ir)) # {}
          /\ \A k \in DeclarationsOf(IntrinsicName(ir)) : W.ret.n <= k
          /\ W.ret.n \in DeclarationsOf(IntrinsicName(ir))

\* the same intrinsic has been requested repeatedly and is declared once
C28_Witness ==
    /\ pc = "requested" /\ nreq = MaxRequests
    /\ Len(W.module_fns) = 1
    /\ ir.id = "get_int_builtin_fn" /\ W.ret = Named("fn", 1)

C28_WitnessOverflow ==
    /\ pc = "requested" /\ nreq = MaxRequests
    /\ Len(W.module_fns) = 1
    /\ ir.id = "get_int_overflow_fn" /\ W.ret = Named("fn", 1)

(***************************************************************************)
(* render_const_val and render_const_val_global called on constants, one   *)
(* call at a time and in any order.                                        *)
(***************************************************************************)
RenderConstVal(c) ==
    /\ pc = "const"
    /\ ~W.aborted
    /\ nreq < MaxRequests
    /\ W' = render_const_val(W, Const(c).type, c)
    /\ nreq' = nreq + 1
    /\ UNCHANGED <<g, scope, ir, pc, want, walker_vars, proto_vars>>

\* the callers pass types that have bits: a handle_is_ptr type, the type of a global
\* variable that has bits, a pointer or the pointee of a pointer
RenderConstValGlobal(c) ==
    /\ pc = "const"
    /\ ~W.aborted
    /\ nreq < MaxRequests
    /\ type_has_bits(Const(c).type)
    /\ W' = render_const_val_global(W, Const(c).type, c)
    /\ nreq' = nreq + 1
    /\ UNCHANGED <<g, scope, ir, pc, want, walker_vars, proto_vars>>

NextRender ==
    \/ \E c \in 1..NumConsts : RenderConstVal(c)
    \/ \E c \in 1..NumConsts : RenderConstValGlobal(c)

SpecRender == InitConst /\ [][NextRender]_vars

\* the constants that have a global
WithGlobal == {c \in 1..NumConsts : W.consts[c].llvm_global # NullRef}

\* the initializer of the global of the constant c
InitializerOf(c) == W.globals[W.consts[c].llvm_global.n].init

\* C29: after any sequence of render_const_val and render_const_val_global calls,
\* a constant that has a cached value and a global has the cached value as the
\* initializer of its global, and a global without initializer is the global of a
\* constant that has no cached value
C29_InitializerIsCachedValue ==
    ~W.aborted =>
        /\ \A c \in WithGlobal \cap Rendered : InitializerOf(c) = W.consts[c].llvm_value
        /\ \A i \in 1..Len(W.globals) :
              W.globals[i].init = NullRef =>
                 \E c \in WithGlobal \ Rendered : W.consts[c].llvm_global.n = i

\* both functions have been called on a struct constant, which has a value and a global
C29_Witness ==
    /\ ~W.aborted
    /\ \E c \in WithGlobal \cap Rendered :
          /\ Ty(Const(c).type).id = "Struct"
          /\ Len(W.globals) = 1
          /\ nreq = 2
          /\ InitializerOf(c) = W.consts[c].llvm_value

\* a constant has a global and no cached value
C29_WitnessNoValue ==
    /\ ~W.aborted
    /\ \E c \in WithGlobal \ Rendered : InitializerOf(c) = NullRef

(***************************************************************************)
(* do_code_gen from the error name table to the body of a function: the    *)
(* table is generated, then the blocks of the function are built and its   *)
(* instructions are rendered.                                              *)
(***************************************************************************)
\* the analysis sets generate_error_name_table when it meets an error name
InitErrName ==
    /\ g \in CodeGens
    /\ scope \in ScopeChains
    /\ cur_fn \in {FnErrName, FnStraight, FnDiamond}
    /\ cur_fn = FnErrName => g.generate_error_name_table
    /\ W = EmptyW
    /\ pc = "error_name_table"
    /\ ir = NoIr
    /\ want = FALSE
    /\ nreq = 0
    /\ block_i = 0
    /\ instr_i = 0
    /\ NoProtos

\* do_code_gen after generate_error_name_table, for a module whose tables of global
\* variables and prototypes are empty, up to build_all_basic_blocks; a test build
\* without test functions exits
BeginFnDef ==
    /\ pc = "protos"
    /\ ~W.aborted
    /\ fn_protos = <<>>
    /\ IF g.is_test_build
       THEN /\ pc' = "exit"
            /\ UNCHANGED <<W, block_i>>
       ELSE /\ W' = build_all_basic_blocks(
                        c_assert(W, Len(cur_fn) > 0, "function without blocks"), cur_fn, 1)
            /\ pc' = "block"
            /\ block_i' = 1
    /\ UNCHANGED <<g, scope, ir, want, nreq, cur_fn, instr_i, proto_vars>>

NextErrName ==
    \/ GenerateErrorNameTable
    \/ BeginFnDef
    \/ EnterBlock
    \/ RenderInstruction
    \/ LeaveBlock

SpecErrName == InitErrName /\ [][NextErrName]_vars

\* the emitted instructions that index the error name table
ErrNameTableGeps ==
    {i \in AllInsns(W) : i.op = "inboundsgep" /\ i.args[1] = err_name_table}

\* an ErrName instruction of the function has been passed by ir_render
ErrNameRendered ==
    \E b \in 1..Len(cur_fn) : \E j \in 1..Len(cur_fn[b].instruction_list) :
        /\ cur_fn[b].instruction_list[j].id = "ErrName"
        /\ \/ pc = "rendered"
           \/ pc \in {"block", "instr"} /\ b < block_i
           \/ pc = "instr" /\ b = block_i /\ j < instr_i

\* a function body is being lowered or has been lowered
InFnBody == pc \in {"block", "instr", "rendered"}

\* C30: an emitted GEP into the error name table finds the one global
\* err_name_table already in the module; the table is generated before any block of
\* a function exists, exactly when error names are referenced and an error besides
\* Ok is declared, the condition under which a lowered ErrName indexes it; with Ok
\* alone a lowered ErrName emits no GEP
C30_TableBeforeErrName ==
    /\ ErrNameTableGeps # {} => Cardinality(ErrNameTables) = 1
    /\ pc = "error_name_table" => W.blocks = <<>> /\ ErrNameTables = {}
    /\ InFnBody => (ErrNameTables # {}
                       <=> (g.generate_error_name_table /\ g.error_decls_length > 1))
    /\ (ErrNameRendered /\ ~W.aborted) =>
          (ErrNameTableGeps # {} <=> g.error_decls_length > 1)

\* an ErrName has been lowered to a GEP into the generated table
C30_Witness ==
    /\ ErrNameRendered /\ ~W.aborted
    /\ ErrNameTableGeps # {}
    /\ ErrNameTables # {}
    /\ g.error_decls_length = Len(ErrorDecls)

\* an ErrName has been lowered while Ok is the only error
C30_WitnessOnlyOk ==
    /\ ErrNameRendered /\ ~W.aborted
    /\ g.error_decls_length = 1
    /\ ErrNameTables = {}

====
